---- MODULE Spec2Model ----
(***************************************************************************)
(* A model of the backtracking matcher of src/cre/expression.py: the       *)
(* EvaluationContext (cursor and capture table), the expression tree with  *)
(* the attempt stack (_matches) of every node, and the matches / retry /   *)
(* undo protocol of the five expression classes.                           *)
(*                                                                         *)
(* A protocol call is one action.  The recursive calls it makes are the    *)
(* recursive operators below; each takes the engine state                  *)
(*     st = [progress, caps, stacks, fuel]                                 *)
(* and returns [st, r, m]: the state it leaves, its outcome r and, for a   *)
(* primitive step, the span m it returns.  r is "true" or "false" for a    *)
(* normal return, the name of the Python exception when the code raises    *)
(* (the state is then the one at the raise), and "diverge" when the call   *)
(* made more than MaxFuel nested calls.                                    *)
(***************************************************************************)
EXTENDS Integers, Sequences, FiniteSets, TLC

VARIABLES
    tree,       \* the expression tree: a sequence of nodes, the root is node 1
    subject,    \* EvaluationContext._subject, a sequence of characters
    progress,   \* EvaluationContext._progress
    caps,       \* EvaluationContext._matches: name -> stack of spans
    stacks,     \* Expression._matches of every node: node -> stack of attempts
    last,       \* the last call on the root: operation, outcome, returned span, the state
                \* before it and the state before the attempt it worked on
    hist,       \* the states before the root's matches() calls that are still live
    calls,      \* number of protocol calls made on the root
    trace,      \* the protocol calls made on the root, in order: operation,
                \* outcome, the cursor and capture table before it, and the
                \* cursor and capture table it left
    parser      \* the Parser: _stack, _group_count, the outcome of parse()
                \* and the tree it returned

vars ==
    <<tree, subject, progress, caps, stacks, last, hist, calls, trace, parser>>

----------------------------------------------------------------------------
(* Values *)

\* float("inf"), the unbounded max_repetitions
Inf == -1

\* len < limit, for a limit that may be float("inf")
Below(n, lim) == lim = Inf \/ n < lim

\* len == limit, for a limit that may be float("inf")
AtLimit(n, lim) == lim # Inf /\ n = lim

\* Python's None as the value of a repetition entry
None == [start |-> -1, end |-> -1, mc |-> -1]

\* a repetition entry {"start", "end"}; mc is the "matching_child" key (the
\* index of the child, from 0), -1 when the dict has no such key
Span(s, e) == [start |-> s, end |-> e, mc |-> -1]

SpanOf(s, e, i) == [start |-> s, end |-> e, mc |-> i]

\* code point of a character: str comparison in CharacterRangeExpression
Ord(c) ==
    CASE c = "a" -> 97
      [] c = "b" -> 98
      [] c = "c" -> 99
      [] c = "d" -> 100
      [] c = "z" -> 122
      [] c = "0" -> 48
      [] c = "1" -> 49
      [] c = "2" -> 50
      [] c = "9" -> 57
      [] c = "(" -> 40
      [] c = ")" -> 41
      [] c = "*" -> 42
      [] c = "+" -> 43
      [] c = "," -> 44
      [] c = "<" -> 60
      [] c = ">" -> 62
      [] c = "?" -> 63
      [] c = "P" -> 80
      [] c = "{" -> 123
      [] c = "}" -> 125
      [] OTHER -> 0

\* the repetition entry restricted to the keys "start" and "end"
CopyKeys(m) == [start |-> m.start, end |-> m.end]

St(p, c, s, f) == [progress |-> p, caps |-> c, stacks |-> s, fuel |-> f]

Res(st, r) == [st |-> st, r |-> r, m |-> None]

ResM(st, m) == [st |-> st, r |-> "true", m |-> m]

Abnormal(r) == r \notin {"true", "false"}

Bool(b) == IF b THEN "true" ELSE "false"

----------------------------------------------------------------------------
(* Expression nodes.  names = <<>> stands for _names None: every use of     *)
(* _names is "is not None and ...: for n in names", which does nothing for *)
(* an empty tuple as well.                                                 *)

Node(k, mn, mx, g, nms, c, lo, hi, ref, ch) ==
    [kind |-> k, min |-> mn, max |-> mx, greedy |-> g, names |-> nms,
     char |-> c, lo |-> lo, hi |-> hi, ref |-> ref, children |-> ch]

CharacterExpression(c, mn, mx, g, nms) ==
    Node("char", mn, mx, g, nms, c, "", "", "", <<>>)

CharacterRangeExpression(lo, hi, mn, mx, g, nms) ==
    Node("range", mn, mx, g, nms, "", lo, hi, "", <<>>)

BackReferenceExpression(ref, mn, mx, g, nms) ==
    Node("backref", mn, mx, g, nms, "", "", "", ref, <<>>)

GroupExpression(ch, mn, mx, g, nms) ==
    Node("group", mn, mx, g, nms, "", "", "", "", ch)

AnyOfOptionsExpression(ch, mn, mx, g, nms) ==
    Node("anyof", mn, mx, g, nms, "", "", "", "", ch)

----------------------------------------------------------------------------
(* Expression state *)

Depth(st, n) == Len(st.stacks[n])

\* Expression._current_match (the caller has checked Depth > 0)
CurrentMatch(st, n) == st.stacks[n][Len(st.stacks[n])]

\* Expression._current_repetition (the caller has checked it exists)
CurrentRepetition(st, n) == CurrentMatch(st, n)[Len(CurrentMatch(st, n))]

\* Expression.has_current_repetition
HasCurrentRepetition(st, n) ==
    Depth(st, n) > 0 /\ Len(CurrentMatch(st, n)) > 0

SetCurrentMatch(st, n, cm) ==
    [st EXCEPT !.stacks[n][Len(st.stacks[n])] = cm]

\* self._current_match.append(m)
AppendRepetition(st, n, m) ==
    SetCurrentMatch(st, n, Append(CurrentMatch(st, n), m))

\* self._current_match.pop()
PopRepetition(st, n) ==
    SetCurrentMatch(st, n, SubSeq(CurrentMatch(st, n), 1, Len(CurrentMatch(st, n)) - 1))

\* a new attempt only on an empty stack: a later matches() goes on with the
\* attempt the node already holds
PushAttemptOnce(st, n) ==
    IF Len(st.stacks[n]) > 0 THEN st
    ELSE [st EXCEPT !.stacks[n] = Append(@, <<>>)]

\* self._matches.append([])
PushAttempt(st, n) == [st EXCEPT !.stacks[n] = Append(@, <<>>)]

\* self._matches.pop()
PopAttempt(st, n) == [st EXCEPT !.stacks[n] = SubSeq(@, 1, Len(@) - 1)]

----------------------------------------------------------------------------
(* EvaluationContext: the capture table.  caps is a function whose domain  *)
(* is the set of keys of the dict.                                         *)

NoCaps == [k \in {} |-> <<>>]

PushOne(c, k, v) ==
    [x \in (DOMAIN c) \cup {k} |->
        IF x = k THEN (IF k \in DOMAIN c THEN Append(c[k], v) ELSE <<v>>)
        ELSE c[x]]

\* the push under the first name only
PushMatchFirstName(c, names, v) ==
    IF names = <<>> THEN c ELSE PushOne(c, Head(names), v)

\* EvaluationContext.push_match
RECURSIVE push_match(_, _, _)
push_match(c, names, v) ==
    IF names = <<>> THEN c
    ELSE push_match(PushOne(c, Head(names), v), Tail(names), v)

\* EvaluationContext.override_match: [caps, r], r the exception of the first
\* name that has no entry
RECURSIVE override_match(_, _, _)
override_match(c, names, v) ==
    IF names = <<>> THEN [caps |-> c, r |-> "true"]
    ELSE IF Head(names) \notin DOMAIN c THEN [caps |-> c, r |-> "KeyError"]
    ELSE IF Len(c[Head(names)]) = 0 THEN [caps |-> c, r |-> "IndexError"]
    ELSE override_match(
            [c EXCEPT ![Head(names)] = [@ EXCEPT ![Len(@)] = v]],
            Tail(names), v)

\* the pop without "del self._matches[n]"
PopOneKeepsKey(c, k) == [c EXCEPT ![k] = SubSeq(@, 1, Len(@) - 1)]

PopOne(c, k) ==
    IF Len(c[k]) = 1 THEN [x \in (DOMAIN c) \ {k} |-> c[x]]
    ELSE [c EXCEPT ![k] = SubSeq(@, 1, Len(@) - 1)]

\* EvaluationContext.pop_match
RECURSIVE pop_match(_, _)
pop_match(c, names) ==
    IF names = <<>> THEN [caps |-> c, r |-> "true"]
    ELSE IF Head(names) \notin DOMAIN c THEN [caps |-> c, r |-> "KeyError"]
    ELSE IF Len(c[Head(names)]) = 0 THEN [caps |-> c, r |-> "IndexError"]
    ELSE pop_match(PopOne(c, Head(names)), Tail(names))

\* self._subject[a:b] for 0 <= a
Slice(a, b) ==
    IF b <= a THEN <<>>
    ELSE SubSeq(subject, a + 1, IF b < Len(subject) THEN b ELSE Len(subject))

\* str.startswith
StartsWith(s, p) ==
    Len(p) <= Len(s) /\ SubSeq(s, 1, Len(p)) = p

----------------------------------------------------------------------------
(* The protocol.  Every operator below is called with the fuel already     *)
(* checked by its entry point (Matches, Retry, Undo, MatchesOnce,          *)
(* Reevaluate), which count the nested calls.  Where the code goes on with *)
(* the result of a call, the operator hands the result r of the call to an *)
(* operator for the rest of the code.                                      *)

RECURSIVE Matches(_, _), Retry(_, _), Undo(_, _), MatchesOnce(_, _),
          Reevaluate(_, _)

\* A while loop of the code is its body, an operator that runs one iteration
\* from the state st and returns r = "continue" with the state it leaves when
\* the loop goes on, and the result of the loop when the iteration ends it.
\* Repeat runs up to 2^k iterations, the first 2^(k-1) and then the others.
RECURSIVE Repeat(_, _, _)
Repeat(Body(_), k, st) ==
    IF k = 0 THEN Body(st)
    ELSE LET a == Repeat(Body, k - 1, st)
         IN  IF a.r = "continue" THEN Repeat(Body, k - 1, a.st) ELSE a

\* 2^LoopDepth iterations are more than MaxFuel calls allow
LoopDepth == 13

\* the loop from st on, as runs of 1, 1, 2, 4, ... iterations
RECURSIVE Runs(_, _, _)
Runs(Body(_), k, st) ==
    LET a == Repeat(Body, k, st)
    IN  IF a.r # "continue" THEN a
        ELSE IF k >= LoopDepth THEN Res(a.st, "diverge")
        ELSE Runs(Body, k + 1, a.st)

While(Body(_), st) == Runs(Body, 0, st)

\* "while f(...)": the loop goes on when the call returned true
WhileTrue(q) == IF q.r = "true" THEN Res(q.st, "continue") ELSE q

\* "while not f(...)": the loop goes on when the call returned false
WhileFalse(q) == IF q.r = "false" THEN Res(q.st, "continue") ELSE q

\* a step of the Literal that takes a character at the end of the subject
\* too, in place of the IndexError
CharMatchesOnceUnbounded(n, st) ==
    IF st.progress < Len(subject) /\ subject[st.progress + 1] # tree[n].char
    THEN Res(st, "false")
    ELSE ResM(st, Span(st.progress, st.progress + 1))

\* CharacterExpression._matches_once
CharMatchesOnce(n, st) ==
    IF st.progress >= Len(subject) THEN Res(st, "IndexError")
    ELSE IF subject[st.progress + 1] = tree[n].char
         THEN ResM(st, Span(st.progress, st.progress + 1))
         ELSE Res(st, "false")

\* CharacterRangeExpression._matches_once
RangeMatchesOnce(n, st) ==
    IF st.progress >= Len(subject) THEN Res(st, "IndexError")
    ELSE IF /\ Ord(tree[n].lo) <= Ord(subject[st.progress + 1])
            /\ Ord(subject[st.progress + 1]) <= Ord(tree[n].hi)
         THEN ResM(st, Span(st.progress, st.progress + 1))
         ELSE Res(st, "false")

\* the step of a back reference without the test of the remaining subject:
\* it consumes as many characters as the capture is long
BackRefMatchesOnceUntested(n, st) ==
    IF tree[n].ref \notin DOMAIN st.caps THEN Res(st, "KeyError")
    ELSE IF Len(st.caps[tree[n].ref]) = 0 THEN Res(st, "IndexError")
    ELSE LET lastResult == st.caps[tree[n].ref][Len(st.caps[tree[n].ref])]
         IN  ResM(st, Span(st.progress,
                           st.progress + (lastResult.end - lastResult.start)))

\* the step of a back reference that looks for the capture at the start of
\* the subject instead of at the cursor
BackRefMatchesOnceAtStart(n, st) ==
    IF tree[n].ref \notin DOMAIN st.caps THEN Res(st, "KeyError")
    ELSE IF Len(st.caps[tree[n].ref]) = 0 THEN Res(st, "IndexError")
    ELSE LET lastResult == st.caps[tree[n].ref][Len(st.caps[tree[n].ref])]
             pattern == Slice(lastResult.start, lastResult.end)
         IN  IF StartsWith(subject, pattern)
             THEN ResM(st, Span(st.progress, st.progress + Len(pattern)))
             ELSE Res(st, "false")

\* EvaluationContext.get_match_string and BackReferenceExpression._matches_once
BackRefMatchesOnce(n, st) ==
    IF tree[n].ref \notin DOMAIN st.caps THEN Res(st, "KeyError")
    ELSE IF Len(st.caps[tree[n].ref]) = 0 THEN Res(st, "IndexError")
    ELSE LET lastResult == st.caps[tree[n].ref][Len(st.caps[tree[n].ref])]
             pattern == Slice(lastResult.start, lastResult.end)
         IN  IF StartsWith(Slice(st.progress, Len(subject)), pattern)
             THEN ResM(st, Span(st.progress, st.progress + Len(pattern)))
             ELSE Res(st, "false")

\* Expression.matches, lines 163-166 with the result r of _matches_once
MatchLoopStep(n, r) ==
    IF r.r = "true"
    THEN Res([AppendRepetition(r.st, n, r.m) EXCEPT !.progress = r.m.end],
             "continue")
    ELSE IF r.r = "false" THEN Res(r.st, "true")
    ELSE r

\* Expression.matches, one iteration of the while loop (lines 160-166)
MatchLoopBody(n, st, upperLimit) ==
    IF st.progress < Len(subject) /\ Below(Len(CurrentMatch(st, n)), upperLimit)
    THEN MatchLoopStep(n, MatchesOnce(n, st))
    ELSE Res(st, "true")

\* Expression.matches, the while loop
MatchLoop(n, st, upperLimit) ==
    While(LAMBDA s : MatchLoopBody(n, s, upperLimit), st)

\* Expression.matches, line 168 after the loop ended with r
MatchLoopResult(n, r) ==
    IF Abnormal(r.r) THEN r
    ELSE Res(r.st, Bool(tree[n].min <= Len(CurrentMatch(r.st, n))))

\* Expression.matches with max_repetitions as the upper limit of a
\* non-greedy node too
ExpressionMatchesToMax(n, st) ==
    MatchLoopResult(n, MatchLoop(n, PushAttempt(st, n), tree[n].max))

\* Expression.matches, undecorated
ExpressionMatches(n, st) ==
    MatchLoopResult(n, MatchLoop(n, PushAttempt(st, n),
                                 IF tree[n].greedy THEN tree[n].max
                                 ELSE tree[n].min))

\* Expression.retry, lines 200-204 with the result r of _matches_once
RetryStep(n, r) ==
    IF r.r = "true"
    THEN Res([AppendRepetition(r.st, n, r.m) EXCEPT !.progress = r.m.end], "true")
    ELSE r

\* Expression.retry, undecorated
ExpressionRetry(n, st) ==
    IF Depth(st, n) = 0 THEN Res(st, "IndexError")
    ELSE IF AtLimit(Len(CurrentMatch(st, n)),
                    IF tree[n].greedy THEN tree[n].min ELSE tree[n].max)
    THEN Res(st, "false")
    ELSE IF tree[n].greedy
    THEN IF Len(CurrentMatch(st, n)) = 0 THEN Res(st, "IndexError")
         ELSE IF CurrentRepetition(st, n) = None
              THEN Res(PopRepetition(st, n), "TypeError")
              ELSE Res([PopRepetition(st, n)
                           EXCEPT !.progress = CurrentRepetition(st, n).start],
                       "true")
    ELSE RetryStep(n, MatchesOnce(n, st))

\* Expression.undo
ExpressionUndo(n, st) ==
    IF Depth(st, n) = 0 THEN Res(st, "IndexError")
    ELSE IF Len(CurrentMatch(st, n)) > 0 /\ CurrentMatch(st, n)[1] = None
    THEN Res(st, "TypeError")
    ELSE LET s1 == IF Len(CurrentMatch(st, n)) > 0
                   THEN [st EXCEPT !.progress = CurrentMatch(st, n)[1].start]
                   ELSE st
             p == pop_match(s1.caps, tree[n].names)
             s2 == [s1 EXCEPT !.caps = p.caps]
         IN  IF p.r = "true" THEN Res(PopAttempt(s2, n), "true")
             ELSE Res(s2, p.r)

\* AbstractIteratorExpression.matches, lines 319-321 with the result r of
\* _matches_once
IterFillStep(n, r) ==
    IF r.r = "true" THEN Res(AppendRepetition(r.st, n, r.m), "continue")
    ELSE IF r.r = "false" THEN Res(r.st, "true")
    ELSE r

\* AbstractIteratorExpression.matches, one iteration of the inner while loop
\* (lines 317-321)
IterFillBody(n, st, upperLimit) ==
    IF Below(Len(CurrentMatch(st, n)), upperLimit)
    THEN IterFillStep(n, MatchesOnce(n, st))
    ELSE Res(st, "true")

IterFill(n, st, upperLimit) ==
    While(LAMBDA s : IterFillBody(n, s, upperLimit), st)

\* AbstractIteratorExpression.matches, lines 322-325 after the inner loop
\* ended with r
IterSearchStep(n, r) ==
    IF Abnormal(r.r) THEN r
    ELSE IF Len(CurrentMatch(r.st, n)) >= tree[n].min THEN Res(r.st, "true")
    ELSE WhileTrue(Reevaluate(n, r.st))

\* AbstractIteratorExpression.matches, one iteration of the outer while loop
\* (lines 316-325)
IterSearchBody(n, st, upperLimit) ==
    IterSearchStep(n, IterFill(n, st, upperLimit))

IterSearch(n, st, upperLimit) ==
    While(LAMBDA s : IterSearchBody(n, s, upperLimit), st)

\* AbstractIteratorExpression.matches, undecorated
IteratorMatches(n, st) ==
    IterSearch(n, PushAttempt(st, n),
               IF tree[n].greedy THEN tree[n].max ELSE tree[n].min)

\* AbstractIteratorExpression.retry, the greedy for loop (lines 346-347):
\* the result of _matches_once is appended as it is, None included
RECURSIVE IterRestore(_, _, _)
IterRestoreStep(n, r, k) ==
    IF Abnormal(r.r) THEN r
    ELSE IterRestore(n, AppendRepetition(r.st, n, r.m), k - 1)

IterRestore(n, st, k) ==
    IF k <= 0 THEN Res(st, "true")
    ELSE IterRestoreStep(n, MatchesOnce(n, st), k)

\* AbstractIteratorExpression.retry, the non-greedy for loop (lines 349-353)
RECURSIVE IterGrow(_, _, _)
IterGrowStep(n, r, k) ==
    IF r.r = "true" THEN IterGrow(n, AppendRepetition(r.st, n, r.m), k - 1)
    ELSE r

IterGrow(n, st, k) ==
    IF k <= 0 THEN Res(st, "true")
    ELSE IterGrowStep(n, MatchesOnce(n, st), k)

\* AbstractIteratorExpression.retry after the search at the same repetition
\* count gave nothing (lines 337-354)
IteratorRecount(n, st, initialRepetitions) ==
    IF AtLimit(initialRepetitions,
               IF tree[n].greedy THEN tree[n].min ELSE tree[n].max)
    THEN Res(st, "false")
    ELSE IF tree[n].greedy THEN IterRestore(n, st, initialRepetitions - 1)
    ELSE IterGrow(n, st, initialRepetitions + 1)

\* AbstractIteratorExpression.retry, lines 335-354 with the result r of
\* _reevaluate_previous_repetition
IteratorRetryStep(n, r, initialRepetitions) ==
    IF r.r = "false" THEN IteratorRecount(n, r.st, initialRepetitions)
    ELSE r

\* AbstractIteratorExpression.retry, undecorated
IteratorRetry(n, st) ==
    IF Depth(st, n) = 0 THEN Res(st, "IndexError")
    ELSE IF Len(CurrentMatch(st, n)) = 0
    THEN IF tree[n].greedy THEN Res(st, "false")
         ELSE IteratorRecount(n, st, 0)
    ELSE IteratorRetryStep(n, Reevaluate(n, st), Len(CurrentMatch(st, n)))

----------------------------------------------------------------------------
(* GroupExpression *)

\* GroupExpression._matches_once.__match_one_child; children are numbered
\* from 1
RECURSIVE MatchOneChild(_, _, _)

\* lines 449-451: the next child did not match, the child is retried
MatchOneChildRest(n, child, r) ==
    IF r.r = "false" THEN WhileTrue(Retry(tree[n].children[child], r.st))
    ELSE r

\* one iteration of the loop "while not __match_one_child(child + 1)"
\* (lines 448-452)
MatchOneChildBody(n, child, st) ==
    MatchOneChildRest(n, child, MatchOneChild(n, child + 1, st))

\* lines 446-452 with the result r of the child's matches()
MatchOneChildFirst(n, child, r) ==
    IF r.r = "true"
    THEN While(LAMBDA s : MatchOneChildBody(n, child, s), r.st)
    ELSE r

MatchOneChild(n, child, st) ==
    IF child > Len(tree[n].children) THEN Res(st, "true")
    ELSE MatchOneChildFirst(n, child, Matches(tree[n].children[child], st))

\* the loops over the children that compute the span of a repetition:
\* [ok, start, end]; lowerStart is TRUE for the loop of
\* _reevaluate_previous_repetition (lines 521-525), which also lowers start,
\* and FALSE for the loop of _matches_once (lines 456-458)
RECURSIVE ChildBounds(_, _, _, _, _, _)
ChildBounds(n, st, child, start, end, lowerStart) ==
    IF child > Len(tree[n].children) THEN [ok |-> TRUE, start |-> start, end |-> end]
    ELSE LET c == tree[n].children[child]
         IN  IF ~HasCurrentRepetition(st, c)
             THEN ChildBounds(n, st, child + 1, start, end, lowerStart)
             ELSE IF CurrentRepetition(st, c) = None
             THEN [ok |-> FALSE, start |-> start, end |-> end]
             ELSE ChildBounds(n, st, child + 1,
                     IF lowerStart /\ CurrentRepetition(st, c).start < start
                     THEN CurrentRepetition(st, c).start ELSE start,
                     CurrentRepetition(st, c).end, lowerStart)

\* the span of a step whose end is not taken from the children
GroupMatchedNoEnd(n, r, start) ==
    IF r.r = "true" THEN ResM(r.st, Span(start, start)) ELSE r

\* GroupExpression._matches_once, lines 454-460 with the result r of
\* __match_one_child(0) and the cursor the step began at
GroupMatched(n, r, start) ==
    LET b == ChildBounds(n, r.st, 1, start, start, FALSE)
    IN  IF r.r = "true"
        THEN IF b.ok THEN ResM(r.st, Span(b.start, b.end))
             ELSE Res(r.st, "TypeError")
        ELSE r

\* GroupExpression._matches_once
GroupMatchesOnce(n, st) ==
    GroupMatched(n, MatchOneChild(n, 1, st), st.progress)

\* GroupExpression._reevaluate_previous_repetition.__retry_one_child
RECURSIVE RetryOneChild(_, _, _)

\* lines 511-512: an earlier child was retried, the child matches again
RetryOneChildRest(n, child, r) ==
    IF r.r = "true" THEN WhileFalse(Matches(tree[n].children[child], r.st))
    ELSE r

\* one iteration of the loop "while __retry_one_child(child - 1)"
\* (lines 510-513)
RetryOneChildBody(n, child, st) ==
    RetryOneChildRest(n, child, RetryOneChild(n, child - 1, st))

\* lines 508-513 with the result r of the child's retry()
RetryOneChildFirst(n, child, r) ==
    IF r.r = "false"
    THEN While(LAMBDA s : RetryOneChildBody(n, child, s), r.st)
    ELSE r

RetryOneChild(n, child, st) ==
    IF child < 1 THEN Res(st, "false")
    ELSE RetryOneChildFirst(n, child, Retry(tree[n].children[child], st))

\* lines 531-533 with the result q of _matches_once
GroupReevaluateAppend(n, q) ==
    IF q.r = "true" THEN Res(AppendRepetition(q.st, n, q.m), "true")
    ELSE WhileFalse(q)

\* lines 529-533 with the result r of the reevaluation of the repetition
\* before
GroupReevaluateRest(n, r) ==
    IF r.r = "true" THEN GroupReevaluateAppend(n, MatchesOnce(n, r.st))
    ELSE r

\* one iteration of the loop
\* "while self._reevaluate_previous_repetition(context)" (lines 529-534)
GroupReevaluateBody(n, st) == GroupReevaluateRest(n, Reevaluate(n, st))

GroupReevaluateLoop(n, st) ==
    While(LAMBDA s : GroupReevaluateBody(n, s), st)

\* lines 515-527 only, without the loop of lines 529-534 that goes back to
\* the repetitions before the last one: the fault SixteenAsMatch is there
\* to exclude
GroupRetriedLastOnly(n, r) ==
    LET b == ChildBounds(n, r.st, 1, r.st.progress, r.st.progress, TRUE)
    IN  IF r.r = "true" /\ b.ok
        THEN Res(AppendRepetition(r.st, n, Span(b.start, b.end)), "true")
        ELSE r

\* GroupExpression._reevaluate_previous_repetition, lines 515-534 with the
\* result r of __retry_one_child(len(children) - 1)
GroupRetried(n, r) ==
    LET b == ChildBounds(n, r.st, 1, r.st.progress, r.st.progress, TRUE)
    IN  IF r.r = "true"
        THEN IF b.ok
             THEN Res(AppendRepetition(r.st, n, Span(b.start, b.end)), "true")
             ELSE Res(r.st, "TypeError")
        ELSE IF r.r = "false" THEN GroupReevaluateLoop(n, r.st)
        ELSE r

\* GroupExpression._reevaluate_previous_repetition
GroupReevaluate(n, st) ==
    IF Depth(st, n) = 0 THEN Res(st, "IndexError")
    ELSE IF Len(CurrentMatch(st, n)) = 0 THEN Res(st, "false")
    ELSE GroupRetried(n, RetryOneChild(n, Len(tree[n].children),
                                       PopRepetition(st, n)))

\* GroupExpression.undo, "for c in reversed(self._children): c.undo(context)"
RECURSIVE GroupUndoChildren(_, _, _)
GroupUndoChildrenOn(n, r, child) ==
    IF r.r = "true" THEN GroupUndoChildren(n, r.st, child - 1) ELSE r

GroupUndoChildren(n, st, child) ==
    IF child < 1 THEN Res(st, "true")
    ELSE GroupUndoChildrenOn(n, Undo(tree[n].children[child], st), child)

\* GroupExpression.undo, "for _ in self._current_match"
RECURSIVE GroupUndoRepetitions(_, _, _)
GroupUndoRepetitionsOn(n, r, k) ==
    IF r.r = "true" THEN GroupUndoRepetitions(n, r.st, k - 1) ELSE r

GroupUndoRepetitions(n, st, k) ==
    IF k <= 0 THEN Res(st, "true")
    ELSE GroupUndoRepetitionsOn(n, GroupUndoChildren(n, st, Len(tree[n].children)),
                                k)

\* the undo() of the base class after the loops of the subclass ended with r
UndoSelf(n, r) == IF r.r = "true" THEN ExpressionUndo(n, r.st) ELSE r

\* GroupExpression.undo
GroupUndo(n, st) ==
    IF Depth(st, n) = 0 THEN Res(st, "IndexError")
    ELSE UndoSelf(n, GroupUndoRepetitions(n, st, Len(CurrentMatch(st, n))))

----------------------------------------------------------------------------
(* AnyOfOptionsExpression *)

\* AnyOfOptionsExpression._matches_once, the for loop from child on
RECURSIVE AnyOfFirst(_, _, _, _)

\* the loop body with "matching_child": 0 for whichever child matched
AnyOfFirstOnIndexZero(n, r, child, start) ==
    IF r.r = "true" THEN ResM(r.st, SpanOf(start, r.st.progress, 0))
    ELSE IF r.r = "false" THEN AnyOfFirst(n, r.st, child + 1, start)
    ELSE r

AnyOfFirstOn(n, r, child, start) ==
    IF r.r = "true" THEN ResM(r.st, SpanOf(start, r.st.progress, child - 1))
    ELSE IF r.r = "false" THEN AnyOfFirst(n, r.st, child + 1, start)
    ELSE r

AnyOfFirst(n, st, child, start) ==
    IF child > Len(tree[n].children) THEN Res(st, "false")
    ELSE AnyOfFirstOn(n, Matches(tree[n].children[child], st), child, start)

\* AnyOfOptionsExpression._matches_once
AnyOfMatchesOnce(n, st) == AnyOfFirst(n, st, 1, st.progress)

\* the entry appended by _reevaluate_previous_repetition for a child that
\* matched: {start, end} of the child's current repetition, or the cursor
\* read at line 392 when the child has none; it has no "matching_child"
AnyOfEntry(st, c, start) ==
    IF HasCurrentRepetition(st, c)
    THEN Span(CurrentRepetition(st, c).start, CurrentRepetition(st, c).end)
    ELSE Span(start, start)

\* lines 407-410 and 395-399: child c matched or was retried with result r
AnyOfAppend(n, r, c, start) ==
    IF HasCurrentRepetition(r.st, c) /\ CurrentRepetition(r.st, c) = None
    THEN Res(r.st, "TypeError")
    ELSE Res(AppendRepetition(r.st, n, AnyOfEntry(r.st, c, start)), "true")

\* AnyOfOptionsExpression._reevaluate_previous_repetition, the for loop
\* (lines 403-410) from child on: "true" when a child matched, "false" when
\* the loop ran out of children
RECURSIVE AnyOfLater(_, _, _, _)
AnyOfLaterOn(n, r, child, start) ==
    IF r.r = "true" THEN AnyOfAppend(n, r, tree[n].children[child], start)
    ELSE IF r.r = "false" THEN AnyOfLater(n, r.st, child + 1, start)
    ELSE r

AnyOfLater(n, st, child, start) ==
    IF child > Len(tree[n].children) THEN Res(st, "false")
    ELSE AnyOfLaterOn(n, Matches(tree[n].children[child], st), child, start)

\* lines 411-413 with the result r of the reevaluation of the repetition
\* before: every child is tried again
AnyOfNextRest(n, r, start) ==
    IF r.r = "true" THEN WhileFalse(AnyOfLater(n, r.st, 1, start)) ELSE r

\* one iteration of the loop "while True" (lines 402-413) after the first:
\* the previous repetition is reevaluated, then every child is tried
AnyOfNextBody(n, st, start) == AnyOfNextRest(n, Reevaluate(n, st), start)

\* the loop "while True" after its first for loop ended with q
AnyOfNextOn(n, q, start) ==
    IF q.r = "false"
    THEN While(LAMBDA s : AnyOfNextBody(n, s, start), q.st)
    ELSE q

\* the loop "while True" (lines 402-413), its first for loop from child on
AnyOfNext(n, st, child, start) ==
    AnyOfNextOn(n, AnyOfLater(n, st, child, start), start)

\* lines 395-413 with the result r of the retry() of child c; s1 is the
\* state after the pop
AnyOfRetried(n, r, s1, c) ==
    IF r.r = "true" THEN AnyOfAppend(n, r, c, s1.progress)
    ELSE IF r.r = "false"
    THEN AnyOfNext(n, r.st, CurrentRepetition(s1, n).mc + 2, s1.progress)
    ELSE r

\* lines 392-413 from the state s1 after the pop, where _current_repetition
\* is the entry before the one popped
AnyOfPopped(n, s1) ==
    IF Len(CurrentMatch(s1, n)) = 0 THEN Res(s1, "IndexError")
    ELSE IF CurrentRepetition(s1, n) = None THEN Res(s1, "TypeError")
    ELSE IF CurrentRepetition(s1, n).mc = -1 THEN Res(s1, "KeyError")
    ELSE AnyOfRetried(n,
            Retry(tree[n].children[CurrentRepetition(s1, n).mc + 1], s1),
            s1, tree[n].children[CurrentRepetition(s1, n).mc + 1])

\* AnyOfOptionsExpression._reevaluate_previous_repetition
AnyOfReevaluate(n, st) ==
    IF Depth(st, n) = 0 THEN Res(st, "IndexError")
    ELSE IF Len(CurrentMatch(st, n)) = 0 THEN Res(st, "false")
    ELSE AnyOfPopped(n, PopRepetition(st, n))

\* AnyOfOptionsExpression.undo, "for m in reversed(self._current_match)"
RECURSIVE AnyOfUndoChildren(_, _, _)
AnyOfUndoChildrenOn(n, r, k) ==
    IF r.r = "true" THEN AnyOfUndoChildren(n, r.st, k - 1) ELSE r

AnyOfUndoChildren(n, st, k) ==
    IF k < 1 THEN Res(st, "true")
    ELSE IF CurrentMatch(st, n)[k] = None THEN Res(st, "TypeError")
    ELSE IF CurrentMatch(st, n)[k].mc = -1 THEN Res(st, "KeyError")
    ELSE AnyOfUndoChildrenOn(n,
            Undo(tree[n].children[CurrentMatch(st, n)[k].mc + 1], st), k)

\* AnyOfOptionsExpression.undo
AnyOfUndo(n, st) ==
    IF Depth(st, n) = 0 THEN Res(st, "IndexError")
    ELSE UndoSelf(n, AnyOfUndoChildren(n, st, Len(CurrentMatch(st, n))))

----------------------------------------------------------------------------
(* Dispatch on the class of the node, and the synchronize_context          *)
(* decorator.                                                              *)

IsIterator(n) == tree[n].kind \in {"group", "anyof"}

\* the undecorated matches() of the node's class
RawMatches(n, st) ==
    IF IsIterator(n) THEN IteratorMatches(n, st) ELSE ExpressionMatches(n, st)

\* the undecorated retry() of the node's class
RawRetry(n, st) ==
    IF IsIterator(n) THEN IteratorRetry(n, st) ELSE ExpressionRetry(n, st)

\* wrap_matches without "and obj.has_current_repetition": a successful
\* attempt without repetitions publishes the empty span at the cursor; the
\* fault NoCaptureOfNothing is there to exclude
WrapMatchesPublishesEmpty(n, r) ==
    IF r.r = "true"
    THEN IF tree[n].names # <<>>
         THEN Res([r.st EXCEPT !.caps =
                      push_match(@, tree[n].names,
                          IF HasCurrentRepetition(r.st, n)
                          THEN CopyKeys(CurrentRepetition(r.st, n))
                          ELSE [start |-> r.st.progress, end |-> r.st.progress])],
                  "true")
         ELSE Res(r.st, "true")
    ELSE IF r.r = "false"
    THEN IF Len(CurrentMatch(r.st, n)) = 0
         THEN Res(PopAttempt(r.st, n), "false")
         ELSE Res(PopAttempt([r.st EXCEPT !.progress =
                                 CurrentMatch(r.st, n)[1].start], n), "false")
    ELSE r

\* wrap_matches without "context.progress = obj._current_match[0]["start"]":
\* the fault CursorRestored is there to exclude
WrapMatchesKeepsCursor(n, r) ==
    IF r.r = "true"
    THEN IF tree[n].names # <<>> /\ HasCurrentRepetition(r.st, n)
         THEN Res([r.st EXCEPT !.caps =
                      push_match(@, tree[n].names,
                                 CopyKeys(CurrentRepetition(r.st, n)))],
                  "true")
         ELSE Res(r.st, "true")
    ELSE IF r.r = "false" THEN Res(PopAttempt(r.st, n), "false")
    ELSE r

\* wrap_matches publishing under a successful attempt's first repetition
WrapMatchesFirstRepetition(n, r) ==
    IF r.r = "true"
    THEN IF tree[n].names # <<>> /\ HasCurrentRepetition(r.st, n)
         THEN Res([r.st EXCEPT !.caps =
                      push_match(@, tree[n].names,
                                 CopyKeys(CurrentMatch(r.st, n)[1]))],
                  "true")
         ELSE Res(r.st, "true")
    ELSE IF r.r = "false"
    THEN IF Len(CurrentMatch(r.st, n)) = 0
         THEN Res(PopAttempt(r.st, n), "false")
         ELSE Res(PopAttempt([r.st EXCEPT !.progress =
                                 CurrentMatch(r.st, n)[1].start], n), "false")
    ELSE r

\* synchronize_context.wrap_matches, lines 19-27 with the result r of fn
WrapMatchesResult(n, r) ==
    IF r.r = "true"
    THEN IF tree[n].names # <<>> /\ HasCurrentRepetition(r.st, n)
         THEN IF CurrentRepetition(r.st, n) = None THEN Res(r.st, "TypeError")
              ELSE Res([r.st EXCEPT !.caps =
                           push_match(@, tree[n].names,
                                      CopyKeys(CurrentRepetition(r.st, n)))],
                       "true")
         ELSE Res(r.st, "true")
    ELSE IF r.r = "false"
    THEN IF Depth(r.st, n) = 0 THEN Res(r.st, "IndexError")
         ELSE IF Len(CurrentMatch(r.st, n)) = 0
         THEN Res(PopAttempt(r.st, n), "false")
         ELSE IF CurrentMatch(r.st, n)[1] = None THEN Res(r.st, "TypeError")
         ELSE Res(PopAttempt([r.st EXCEPT !.progress =
                                 CurrentMatch(r.st, n)[1].start], n), "false")
    ELSE r

\* synchronize_context.wrap_matches
WrapMatches(n, st) == WrapMatchesResult(n, RawMatches(n, st))

\* synchronize_context.wrap_retry, lines 35-36 with the result u of undo()
WrapRetryUndone(u) == IF u.r = "true" THEN Res(u.st, "false") ELSE u

\* synchronize_context.wrap_retry, lines 30-36 with the result r of fn
WrapRetryResult(n, r) ==
    IF r.r = "true"
    THEN IF tree[n].names # <<>> /\ HasCurrentRepetition(r.st, n)
         THEN IF CurrentRepetition(r.st, n) = None THEN Res(r.st, "TypeError")
              ELSE LET o == override_match(r.st.caps, tree[n].names,
                                CopyKeys(CurrentRepetition(r.st, n)))
                   IN  Res([r.st EXCEPT !.caps = o.caps], o.r)
         ELSE Res(r.st, "true")
    ELSE IF r.r = "false" THEN WrapRetryUndone(Undo(n, r.st))
    ELSE r

\* synchronize_context.wrap_retry
WrapRetry(n, st) == WrapRetryResult(n, RawRetry(n, st))

\* the undo() of the node's class
ClassUndo(n, st) ==
    CASE tree[n].kind = "group" -> GroupUndo(n, st)
      [] tree[n].kind = "anyof" -> AnyOfUndo(n, st)
      [] OTHER -> ExpressionUndo(n, st)

\* the _matches_once() of the node's class
ClassMatchesOnce(n, st) ==
    CASE tree[n].kind = "char" -> CharMatchesOnce(n, st)
      [] tree[n].kind = "range" -> RangeMatchesOnce(n, st)
      [] tree[n].kind = "backref" -> BackRefMatchesOnce(n, st)
      [] tree[n].kind = "group" -> GroupMatchesOnce(n, st)
      [] OTHER -> AnyOfMatchesOnce(n, st)

\* the _reevaluate_previous_repetition() of the node's class
ClassReevaluate(n, st) ==
    IF tree[n].kind = "group" THEN GroupReevaluate(n, st)
    ELSE AnyOfReevaluate(n, st)

Spend(st) == [st EXCEPT !.fuel = @ - 1]

Matches(n, st) ==
    IF st.fuel = 0 THEN Res(st, "diverge") ELSE WrapMatches(n, Spend(st))

Retry(n, st) ==
    IF st.fuel = 0 THEN Res(st, "diverge") ELSE WrapRetry(n, Spend(st))

Undo(n, st) ==
    IF st.fuel = 0 THEN Res(st, "diverge") ELSE ClassUndo(n, Spend(st))

MatchesOnce(n, st) ==
    IF st.fuel = 0 THEN Res(st, "diverge") ELSE ClassMatchesOnce(n, Spend(st))

Reevaluate(n, st) ==
    IF st.fuel = 0 THEN Res(st, "diverge") ELSE ClassReevaluate(n, Spend(st))

----------------------------------------------------------------------------
(* The state machine: a context and a tree are built, then the protocol    *)
(* is called on the root.                                                  *)

\* nested calls one protocol call may make before it counts as diverging
MaxFuel == 6000

\* protocol calls on the root in one behaviour
MaxCalls == 3

\* length of the generated subjects
MaxLen == 3

\* protocol calls in one behaviour of a single leaf, or of the group
\* (ab?a?){2,}, on a subject longer than MaxLen: a matches() and the retry()
\* calls that walk through MaxLen + 1 repetitions or combinations
MaxLeafCalls == 5

Root == 1

\* (ab?a?){2,}
RepeatedABATree ==
    <<GroupExpression(<<2, 3, 4>>, 2, Inf, TRUE, <<>>),
      CharacterExpression("a", 1, 1, TRUE, <<>>),
      CharacterExpression("b", 0, 1, TRUE, <<>>),
      CharacterExpression("a", 0, 1, TRUE, <<>>)>>

\* TRUE while the behaviour may make another protocol call
MayCall ==
    calls < (IF (Len(tree) = 1 \/ tree = RepeatedABATree)
                   /\ Len(subject) > MaxLen
             THEN MaxLeafCalls
             ELSE MaxCalls)

Current == St(progress, caps, stacks, MaxFuel)

Snapshot == [progress |-> progress, caps |-> caps, stacks |-> stacks]

NoState == [progress |-> 0, caps |-> NoCaps, stacks |-> <<>>]

NoCall ==
    [op |-> "none", r |-> "none", m |-> None, pre |-> NoState, base |-> NoState]

\* the state before the matches() call that made the root's current attempt
Base == IF Len(hist) > 0 THEN hist[Len(hist)] ELSE NoState

\* no exception has ended the match
Live == last.r \in {"none", "true", "false"}

\* an entry of Parser._stack
Frame(state, children, first, nms) ==
    [state |-> state, children |-> children, first_time_parsing |-> first,
     names |-> nms]

\* Parser.__init__
NewParser == [stack |-> <<>>, group_count |-> 1, r |-> "none", root |-> <<>>]

\* EvaluationContext.__init__ and Expression.__init__ for the tree t, with
\* the cursor and the capture table then set to p and c, as the tests do
Construct(t, s, p, c) ==
    /\ tree = t
    /\ subject = s
    /\ progress = p
    /\ caps = c
    /\ stacks = [n \in DOMAIN t |-> <<>>]
    /\ last = NoCall
    /\ hist = <<>>
    /\ calls = 0
    /\ trace = <<>>
    /\ parser = NewParser

\* the effect of a protocol call with result r on the context and the tree
Effect(op, r) ==
    /\ progress' = r.st.progress
    /\ caps' = r.st.caps
    /\ stacks' = r.st.stacks
    /\ last' = [op |-> op, r |-> r.r,
                m |-> IF op = "matches_once" THEN r.m ELSE None,
                pre |-> Snapshot,
                base |-> IF op = "matches" THEN Snapshot ELSE Base]
    /\ calls' = calls + 1
    /\ trace' = Append(trace, [op |-> op, r |-> r.r, from |-> progress,
                                had |-> caps, progress |-> r.st.progress,
                                caps |-> r.st.caps])
    /\ UNCHANGED <<tree, subject, parser>>

Front(s) == SubSeq(s, 1, Len(s) - 1)

\* root.matches(context)
CallMatches ==
    /\ MayCall
    /\ Live
    /\ \E r \in {Matches(Root, Current)} :
          /\ Effect("matches", r)
          /\ hist' = IF r.r = "true" THEN Append(hist, Snapshot) ELSE hist

\* root.retry(context), after a matches() that returned true
CallRetry ==
    /\ MayCall
    /\ Live
    /\ Len(stacks[Root]) > 0
    /\ \E r \in {Retry(Root, Current)} :
          /\ Effect("retry", r)
          /\ hist' = IF r.r = "false" THEN Front(hist) ELSE hist

\* root.undo(context), after a matches() that returned true
CallUndo ==
    /\ MayCall
    /\ Live
    /\ Len(stacks[Root]) > 0
    /\ \E r \in {Undo(Root, Current)} :
          /\ Effect("undo", r)
          /\ hist' = IF r.r = "true" THEN Front(hist) ELSE hist

\* root._matches_once(context) on a leaf, as the tests of the leaf classes
\* call it
CallMatchesOnce ==
    /\ MayCall
    /\ Live
    /\ ~IsIterator(Root)
    /\ \E r \in {MatchesOnce(Root, Current)} :
          /\ Effect("matches_once", r)
          /\ hist' = hist

\* EvaluationContext(subject): after a matches() has returned, a new
\* context is made for the same subject; the tree stays as it is
NewContext ==
    /\ MayCall
    /\ Live
    /\ last.op = "matches"
    /\ Effect("context", Res(St(0, NoCaps, stacks, MaxFuel), "none"))
    /\ hist' = hist

Next ==
    CallMatches \/ CallRetry \/ CallUndo \/ CallMatchesOnce \/ NewContext

----------------------------------------------------------------------------
(* The trees and subjects a behaviour starts from *)

Alphabet == {"a", "b"}

Subjects == UNION {[1..k -> Alphabet] : k \in 0..MaxLen}

\* min_repetitions and max_repetitions: none, ?, *, +, {,2}, {1,2}, {2}, {2,}
RepChoices ==
    {<<1, 1>>, <<0, 1>>, <<0, Inf>>, <<1, Inf>>, <<0, 2>>, <<1, 2>>, <<2, 2>>,
     <<2, Inf>>}

NameChoices == {<<>>, <<"foo">>, <<"1", "foo">>}

\* a tree that is one CharacterExpression or CharacterRangeExpression
LeafTrees ==
    {<<CharacterExpression("a", r[1], r[2], g, nm)>> :
        r \in RepChoices, g \in BOOLEAN, nm \in NameChoices}
    \cup
    {<<CharacterRangeExpression("b", "c", r[1], r[2], g, <<>>)>> :
        r \in {<<1, 1>>, <<0, 1>>, <<1, Inf>>, <<0, 2>>}, g \in BOOLEAN}

\* a tree that is one BackReferenceExpression
BackRefTrees ==
    {<<BackReferenceExpression("foo", r[1], r[2], g, <<>>)>> :
        r \in {<<1, 1>>, <<0, 1>>, <<1, Inf>>, <<1, 2>>}, g \in BOOLEAN}

\* the capture tables a BackReferenceExpression is run against, as
\* TestBackReferenceExpression.setUp sets one
BackRefCaps ==
    {NoCaps} \cup {[k \in {"foo"} |-> <<[start |-> 0, end |-> e]>>] : e \in 0..1}

\* the children of the generated groups and alternations
Kids ==
    {CharacterExpression("a", 1, 1, TRUE, <<>>),
     CharacterExpression("b", 1, 1, TRUE, <<>>),
     CharacterExpression("a", 0, 1, TRUE, <<"foo">>),
     CharacterExpression("a", 1, Inf, TRUE, <<>>),
     CharacterExpression("a", 1, 2, FALSE, <<"bar">>),
     CharacterExpression("b", 0, Inf, FALSE, <<>>)}

\* min_repetitions, max_repetitions, greedy and names of the generated
\* groups and alternations
Shapes ==
    {<<1, 1, TRUE, <<>>>>, <<0, 1, TRUE, <<"1">>>>, <<1, Inf, TRUE, <<>>>>,
     <<1, Inf, FALSE, <<"1">>>>, <<0, 2, FALSE, <<>>>>}

\* a GroupExpression of two leaves
GroupTrees ==
    {<<GroupExpression(<<2, 3>>, f[1], f[2], f[3], f[4]), k1, k2>> :
        f \in Shapes, k1 \in Kids, k2 \in Kids}

\* an AnyOfOptionsExpression of two leaves
AnyOfTrees ==
    {<<AnyOfOptionsExpression(<<2, 3>>, f[1], f[2], f[3], f[4]), k1, k2>> :
        f \in {<<1, 1, TRUE, <<>>>>, <<1, 2, TRUE, <<"1">>>>,
               <<0, Inf, FALSE, <<>>>>},
        k1 \in Kids, k2 \in Kids}

\* a GroupExpression of a GroupExpression or AnyOfOptionsExpression and a
\* leaf, and one of a named group and a reference to it
NestedTrees ==
    {<<GroupExpression(<<2, 5>>, 1, 1, TRUE, <<>>),
       GroupExpression(<<3, 4>>, f[1], f[2], f[3], f[4]), k1, k2, k3>> :
        f \in {<<1, Inf, TRUE, <<>>>>, <<0, 2, FALSE, <<"1">>>>},
        k1 \in {CharacterExpression("a", 1, Inf, TRUE, <<>>),
                CharacterExpression("a", 0, 1, TRUE, <<"foo">>)},
        k2 \in {CharacterExpression("a", 1, 1, TRUE, <<>>),
                CharacterExpression("b", 0, Inf, FALSE, <<>>)},
        k3 \in {CharacterExpression("a", 1, 1, TRUE, <<>>),
                CharacterExpression("b", 1, 1, TRUE, <<>>)}}
    \cup
    {<<GroupExpression(<<2, 5>>, 1, 1, TRUE, <<>>),
       AnyOfOptionsExpression(<<3, 4>>, 1, mx, TRUE, <<>>),
       CharacterExpression("a", 1, 1, TRUE, <<>>), k2, k3>> :
        mx \in {1, 2},
        k2 \in {CharacterExpression("a", 1, Inf, TRUE, <<>>),
                CharacterExpression("b", 1, 1, TRUE, <<>>)},
        k3 \in {CharacterExpression("a", 1, 1, TRUE, <<>>),
                CharacterExpression("b", 1, 1, TRUE, <<>>)}}
    \cup
    {<<GroupExpression(<<2, 4>>, 1, 1, TRUE, <<>>),
       GroupExpression(<<3>>, 1, 1, TRUE, <<"1">>), k,
       BackReferenceExpression("1", r[1], r[2], TRUE, <<>>)>> :
        k \in {CharacterExpression("a", 1, 1, TRUE, <<>>),
               CharacterExpression("a", 0, Inf, TRUE, <<>>)},
        r \in {<<1, 1>>, <<0, 1>>}}

\* the trees and subjects of the scenarios of TestGroupExpression and of the
\* zero-repetition captures
A16Tree ==
    <<GroupExpression(<<2, 6>>, 1, 1, TRUE, <<>>),
      GroupExpression(<<3, 4, 5>>, 3, Inf, TRUE, <<>>),
      CharacterExpression("a", 1, Inf, TRUE, <<>>),
      CharacterExpression("a", 2, Inf, TRUE, <<>>),
      CharacterExpression("a", 1, 1, TRUE, <<>>),
      CharacterExpression("a", 1, 1, TRUE, <<>>)>>

A10Tree ==
    <<GroupExpression(<<2, 6>>, 1, 1, TRUE, <<>>),
      GroupExpression(<<3, 4, 5>>, 1, Inf, TRUE, <<>>),
      CharacterExpression("a", 1, 1, TRUE, <<>>),
      CharacterExpression("a", 1, 1, TRUE, <<>>),
      CharacterExpression("a", 1, 1, TRUE, <<>>),
      CharacterExpression("a", 2, Inf, TRUE, <<>>)>>

A12BTree ==
    <<GroupExpression(<<2, 6>>, 1, 1, TRUE, <<>>),
      GroupExpression(<<3, 4, 5>>, 2, Inf, FALSE, <<>>),
      CharacterExpression("a", 1, 1, TRUE, <<>>),
      CharacterExpression("a", 1, 1, TRUE, <<>>),
      CharacterExpression("a", 1, 1, TRUE, <<>>),
      CharacterExpression("b", 1, 1, TRUE, <<>>)>>

OptionalFooTree(c) ==
    <<GroupExpression(<<2, 3>>, 1, 1, TRUE, <<>>),
      CharacterExpression(c, 0, 1, TRUE, <<"foo">>),
      CharacterExpression("b", 1, 1, TRUE, <<>>)>>

\* (a)\1
ABackRefTree ==
    <<GroupExpression(<<2, 4>>, 1, 1, TRUE, <<>>),
      GroupExpression(<<3>>, 1, 1, TRUE, <<"1">>),
      CharacterExpression("a", 1, 1, TRUE, <<>>),
      BackReferenceExpression("1", 1, 1, TRUE, <<>>)>>

\* (a?bc?)b
OptionalABCTree ==
    <<GroupExpression(<<2, 6>>, 1, 1, TRUE, <<>>),
      GroupExpression(<<3, 4, 5>>, 1, 1, TRUE, <<>>),
      CharacterExpression("a", 0, 1, TRUE, <<>>),
      CharacterExpression("b", 1, 1, TRUE, <<>>),
      CharacterExpression("c", 0, 1, TRUE, <<>>),
      CharacterExpression("b", 1, 1, TRUE, <<>>)>>

\* ((ab)|a)b
AbOrATree ==
    <<GroupExpression(<<2, 7>>, 1, 1, TRUE, <<>>),
      AnyOfOptionsExpression(<<3, 6>>, 1, 1, TRUE, <<>>),
      GroupExpression(<<4, 5>>, 1, 1, TRUE, <<>>),
      CharacterExpression("a", 1, 1, TRUE, <<>>),
      CharacterExpression("b", 1, 1, TRUE, <<>>),
      CharacterExpression("a", 1, 1, TRUE, <<>>),
      CharacterExpression("b", 1, 1, TRUE, <<>>)>>

\* a+ and a+?
PlusTree(g) == <<CharacterExpression("a", 1, Inf, g, <<>>)>>

As(n) == [i \in 1..n |-> "a"]

Scenarios ==
    {[tree |-> A16Tree, subject |-> As(16), progress |-> 0, caps |-> NoCaps],
     [tree |-> A10Tree, subject |-> As(10), progress |-> 0, caps |-> NoCaps],
     [tree |-> A12BTree, subject |-> As(12) \o <<"b">>, progress |-> 0,
      caps |-> NoCaps],
     [tree |-> OptionalFooTree("a"), subject |-> <<"b">>, progress |-> 0,
      caps |-> NoCaps],
     [tree |-> OptionalFooTree("b"), subject |-> <<"b">>, progress |-> 0,
      caps |-> NoCaps],
     [tree |-> OptionalABCTree, subject |-> <<"b", "b">>, progress |-> 0,
      caps |-> NoCaps],
     [tree |-> AbOrATree, subject |-> <<"a", "b">>, progress |-> 0,
      caps |-> NoCaps],
     [tree |-> PlusTree(TRUE), subject |-> As(4), progress |-> 0,
      caps |-> NoCaps],
     [tree |-> PlusTree(FALSE), subject |-> As(4), progress |-> 0,
      caps |-> NoCaps],
     [tree |-> RepeatedABATree, subject |-> <<"a", "a", "b", "a", "a">>,
      progress |-> 0, caps |-> NoCaps]}

Inputs ==
    {[tree |-> t, subject |-> s, progress |-> p, caps |-> NoCaps] :
        t \in LeafTrees \cup GroupTrees \cup AnyOfTrees \cup NestedTrees,
        s \in Subjects, p \in 0..MaxLen}
    \cup
    {[tree |-> t, subject |-> s, progress |-> p, caps |-> c] :
        t \in BackRefTrees, s \in Subjects, p \in 0..MaxLen, c \in BackRefCaps}
    \cup Scenarios

Init ==
    \E i \in Inputs :
        /\ i.progress <= Len(i.subject)
        /\ \A k \in DOMAIN i.caps : \A j \in DOMAIN i.caps[k] :
               i.caps[k][j].end <= Len(i.subject)
        /\ Construct(i.tree, i.subject, i.progress, i.caps)

Spec == Init /\ [][Next]_vars

----------------------------------------------------------------------------
(* The parser of src/cre/parser.py.  It runs expression trees of its own   *)
(* on the pattern text: the subject of its context is the pattern, and the *)
(* tree variable holds the trees it builds for that, every one of them a   *)
(* new object whenever it is used.                                         *)

\* the root of the expression for "{(?P<repetition>\d+)}"
RepetitionPattern == 1

\* the root of the expression for "{(?P<min>\d*),(?P<max>\d*)}"
MinMaxPattern == 6

\* the root of the expression for "?P<(?P<name>[a-z]+)>"
NamePattern == 14

\* the expression objects Parser._resolve_repetitions and
\* Parser._parse_conjunction build
ParserTrees ==
    << GroupExpression(<<2, 3, 5>>, 1, 1, TRUE, <<>>),
       CharacterExpression("{", 1, 1, TRUE, <<>>),
       GroupExpression(<<4>>, 1, 1, TRUE, <<"repetition">>),
       CharacterRangeExpression("0", "9", 1, Inf, TRUE, <<>>),
       CharacterExpression("}", 1, 1, TRUE, <<>>),
       GroupExpression(<<7, 8, 10, 11, 13>>, 1, 1, TRUE, <<>>),
       CharacterExpression("{", 1, 1, TRUE, <<>>),
       GroupExpression(<<9>>, 1, 1, TRUE, <<"min">>),
       CharacterRangeExpression("0", "9", 0, Inf, TRUE, <<>>),
       CharacterExpression(",", 1, 1, TRUE, <<>>),
       GroupExpression(<<12>>, 1, 1, TRUE, <<"max">>),
       CharacterRangeExpression("0", "9", 0, Inf, TRUE, <<>>),
       CharacterExpression("}", 1, 1, TRUE, <<>>),
       GroupExpression(<<15, 16, 17, 18, 20>>, 1, 1, TRUE, <<>>),
       CharacterExpression("?", 1, 1, TRUE, <<>>),
       CharacterExpression("P", 1, 1, TRUE, <<>>),
       CharacterExpression("<", 1, 1, TRUE, <<>>),
       GroupExpression(<<19>>, 1, 1, TRUE, <<"name">>),
       CharacterRangeExpression("a", "z", 1, Inf, TRUE, <<>>),
       CharacterExpression(">", 1, 1, TRUE, <<>>) >>

\* the engine state of a context for expression objects just built: none
\* of them has an attempt
Fresh(st) == [st EXCEPT !.stacks = [n \in DOMAIN tree |-> <<>>]]

\* EvaluationContext.current_subject_character, below the end of the subject
CurrentSubjectCharacter(st) == subject[st.progress + 1]

\* context.progress += 1
Advance(st) == [st EXCEPT !.progress = @ + 1]

\* EvaluationContext.get_match_string, for a group that has a capture
GetMatchString(st, group) ==
    Slice(st.caps[group][Len(st.caps[group])].start,
          st.caps[group][Len(st.caps[group])].end)

DigitValue(c) ==
    CASE c = "0" -> 0 [] c = "1" -> 1 [] c = "2" -> 2 [] c = "3" -> 3
      [] c = "4" -> 4 [] c = "5" -> 5 [] c = "6" -> 6 [] c = "7" -> 7
      [] c = "8" -> 8 [] c = "9" -> 9 [] OTHER -> -1

\* the strings int() accepts: decimal digits, at least one
IsNumeral(s) == Len(s) > 0 /\ \A i \in DOMAIN s : DigitValue(s[i]) >= 0

\* int() of a string of decimal digits
RECURSIVE IntOf(_)
IntOf(s) ==
    IF Len(s) = 0 THEN 0
    ELSE 10 * IntOf(SubSeq(s, 1, Len(s) - 1)) + DigitValue(s[Len(s)])

\* the dict _resolve_repetitions returns
Repetitions(mn, mx, g) ==
    [min_repetitions |-> mn, max_repetitions |-> mx, greedy |-> g]

Resolved(st, mn, mx, g) ==
    [st |-> st, r |-> "true", m |-> Repetitions(mn, mx, g)]

\* _resolve_repetitions reading every quantifier as greedy
ResolveGreedNever(st, mn, mx) == Resolved(st, mn, mx, TRUE)

\* Parser._resolve_repetitions, lines 219-226: the '?' after the quantifier
ResolveGreed(st, mn, mx) ==
    IF st.progress < Len(subject) /\ CurrentSubjectCharacter(st) = "?"
    THEN Resolved(Advance(st), mn, mx, FALSE)
    ELSE Resolved(st, mn, mx, TRUE)

\* lines 214-217 with the strings captured as min and max
ResolveBounds(st, minimum, maximum) ==
    IF \/ Len(minimum) > 0 /\ ~IsNumeral(minimum)
       \/ Len(maximum) > 0 /\ ~IsNumeral(maximum)
    THEN Res(st, "ValueError")
    ELSE ResolveGreed(st,
                      IF Len(minimum) > 0 THEN IntOf(minimum) ELSE 0,
                      IF Len(maximum) > 0 THEN IntOf(maximum) ELSE Inf)

\* lines 203-217 with the result q of the second expression's matches()
ResolveMinMax(q) ==
    IF q.r = "true"
    THEN ResolveBounds(q.st, GetMatchString(q.st, "min"),
                       GetMatchString(q.st, "max"))
    ELSE IF q.r = "false" THEN ResolveGreed(q.st, 1, 1)
    ELSE q

\* lines 192-217 with the result q of the first expression's matches()
ResolveExact(q) ==
    IF q.r = "true"
    THEN IF ~IsNumeral(GetMatchString(q.st, "repetition"))
         THEN Res(q.st, "ValueError")
         ELSE ResolveGreed(q.st, IntOf(GetMatchString(q.st, "repetition")),
                           IntOf(GetMatchString(q.st, "repetition")))
    ELSE IF q.r = "false"
    THEN ResolveMinMax(Matches(MinMaxPattern, Fresh(q.st)))
    ELSE q

\* Parser._resolve_repetitions: [st, r, m], m the dict returned
ResolveRepetitions(st) ==
    IF st.progress >= Len(subject) THEN Resolved(st, 1, 1, TRUE)
    ELSE IF CurrentSubjectCharacter(st) = "+"
    THEN ResolveGreed(Advance(st), 1, Inf)
    ELSE IF CurrentSubjectCharacter(st) = "?"
    THEN ResolveGreed(Advance(st), 0, 1)
    ELSE IF CurrentSubjectCharacter(st) = "*"
    THEN ResolveGreed(Advance(st), 0, Inf)
    ELSE ResolveExact(Matches(RepetitionPattern, Fresh(st)))

\* the longest pattern text made of any characters
MaxText == 4

\* the most digits of a number in a pattern text
MaxDigits == 2

Digits == {"0", "2"}

PatternChars == Digits \cup {"{", "}", ",", "?", "*", "+", "a"}

Numerals == UNION {[1..k -> Digits] : k \in 0..MaxDigits}

\* what follows a quantifier in the texts below
Tails == {<<>>, <<"?">>, <<"a">>, <<"?", "?">>}

\* the texts _resolve_repetitions is run on, with the cursor anywhere: all
\* texts up to MaxText characters, and the texts "{n}" and "{m,n}" with
\* numbers of up to MaxDigits digits
QuantifierTexts ==
    UNION {[1..k -> PatternChars] : k \in 0..MaxText}
    \cup {<<"{">> \o n \o <<"}">> \o t : n \in Numerals, t \in Tails}
    \cup {<<"{">> \o m \o <<",">> \o n \o <<"}">> \o t :
             m \in Numerals, n \in Numerals, t \in Tails}

\* the capture table of the parser's context: empty, as the test builds it,
\* or with the captures earlier quantifiers of the pattern left
EarlierCaptures ==
    {NoCaps,
     [k \in {"repetition", "min", "max"} |-> <<[start |-> 0, end |-> 0]>>]}

ResolveInit ==
    \E t \in QuantifierTexts : \E p \in 0..Len(t) : \E c \in EarlierCaptures :
        Construct(ParserTrees, t, p, c)

\* self._resolve_repetitions() on the context
CallResolveRepetitions ==
    /\ calls = 0
    /\ \E q \in {ResolveRepetitions(Current)} :
          /\ progress' = q.st.progress
          /\ caps' = q.st.caps
          /\ last' = [op |-> "_resolve_repetitions", r |-> q.r, m |-> q.m,
                      pre |-> Snapshot, base |-> NoState]
    /\ calls' = calls + 1
    /\ UNCHANGED <<tree, subject, stacks, hist, trace, parser>>

ResolveNext == CallResolveRepetitions

ResolveSpec == ResolveInit /\ [][ResolveNext]_vars

\* _names of an expression built without names
NoneNames == [none |-> TRUE, tuple |-> <<>>]

\* Expression.__init__: self._names = tuple(names)
Names(t) == [none |-> FALSE, tuple |-> t]

\* the attributes of a CharacterExpression the parser or a test builds
CharacterObject(c, mn, mx, g, nms) ==
    [kind |-> "char", min |-> mn, max |-> mx, greedy |-> g, names |-> nms,
     matches |-> <<>>, char |-> c, children |-> <<>>]

\* the attributes of a GroupExpression the parser or a test builds
GroupObject(ch, mn, mx, g, nms) ==
    [kind |-> "group", min |-> mn, max |-> mx, greedy |-> g, names |-> nms,
     matches |-> <<>>, char |-> "", children |-> ch]

\* Expression.__eq__: every attribute of x equals that of y, the children
\* one by one with __eq__ again (for objects of two classes Python raises
\* AttributeError instead)
RECURSIVE ExpressionEq(_, _)
ExpressionEq(x, y) ==
    /\ x.kind = y.kind
    /\ x.min = y.min /\ x.max = y.max /\ x.greedy = y.greedy
    /\ x.names = y.names
    /\ x.matches = y.matches
    /\ x.char = y.char
    /\ Len(x.children) = Len(y.children)
    /\ \A i \in DOMAIN x.children :
           ExpressionEq(x.children[i], y.children[i])

\* Parser._current
CurrentFrame(ps) == ps.stack[Len(ps.stack)]

\* self._stack.pop()
PopFrame(ps) == [ps EXCEPT !.stack = SubSeq(@, 1, Len(@) - 1)]

\* self._stack.append(frame)
PushFrame(ps, frame) == [ps EXCEPT !.stack = Append(@, frame)]

\* self._current_children.append(e)
AppendChild(ps, e) ==
    [ps EXCEPT !.stack[Len(ps.stack)].children = Append(@, e)]

\* an exception leaves the handler, and parse() with it
Raise(st, ps, x) == [st |-> Fresh(st), ps |-> [ps EXCEPT !.r = x]]

\* a handler returns; the expression objects it built for matching are gone
Parsed(st, ps) == [st |-> Fresh(st), ps |-> ps]

\* Parser._parse_root
ParseRootStep(st, ps) == Parsed(st, PushFrame(ps, Frame("unknown", <<>>, FALSE, <<>>)))

\* Parser._parse_unknown, lines 64-72: the character '|'
ParseBar(st, ps) ==
    IF Len(CurrentFrame(ps).children) = 0 THEN Raise(st, ps, "TypeError")
    ELSE Parsed(Advance(st),
             PushFrame(
                 PushFrame(
                     [ps EXCEPT !.stack[Len(ps.stack)].children =
                                    SubSeq(@, 1, Len(@) - 1)],
                     Frame("disjunction",
                           <<CurrentFrame(ps).children[
                                 Len(CurrentFrame(ps).children)]>>,
                           FALSE, <<>>)),
                 Frame("unknown", <<>>, FALSE, <<>>)))

\* Parser._parse_unknown, after self._stack.pop()
ParseUnknownChar(st, ps, char) ==
    IF char = "\\" THEN Parsed(Advance(st), PushFrame(ps, Frame("escaped", <<>>, FALSE, <<>>)))
    ELSE IF char = "("
    THEN Parsed(Advance(st), PushFrame(ps, Frame("conjunction", <<>>, TRUE, <<>>)))
    ELSE IF char = "["
    THEN Parsed(Advance(st), PushFrame(ps, Frame("character_group", <<>>, FALSE, <<>>)))
    ELSE IF char \in {"]", ")"} THEN Raise(st, ps, "TypeError")
    ELSE IF char = "|" THEN ParseBar(st, ps)
    ELSE Parsed(st, PushFrame(ps, Frame("character", <<>>, FALSE, <<>>)))

\* Parser._parse_unknown
ParseUnknownStep(st, ps) ==
    ParseUnknownChar(st, PopFrame(ps), CurrentSubjectCharacter(st))

\* Parser._parse_character, lines 81-83 with the result q of
\* _resolve_repetitions
ParseCharacterResolved(ps, char, q) ==
    IF q.r # "true" THEN Raise(q.st, ps, q.r)
    ELSE Parsed(q.st,
                AppendChild(PopFrame(ps),
                            CharacterObject(char, q.m.min_repetitions,
                                            q.m.max_repetitions, q.m.greedy,
                                            NoneNames)))

\* Parser._parse_character
ParseCharacterStep(st, ps) ==
    ParseCharacterResolved(ps, CurrentSubjectCharacter(st),
                           ResolveRepetitions(Fresh(Advance(st))))

\* Parser._parse_conjunction, lines 118-121 with the result q of
\* _resolve_repetitions
ParseConjunctionResolved(ps, q) ==
    IF q.r # "true" THEN Raise(q.st, ps, q.r)
    ELSE Parsed(q.st,
                AppendChild(PopFrame(ps),
                            GroupObject(CurrentFrame(ps).children,
                                        q.m.min_repetitions,
                                        q.m.max_repetitions, q.m.greedy,
                                        Names(CurrentFrame(ps).names))))

\* Parser._parse_conjunction, lines 111-124
ParseConjunctionClose(st, ps) ==
    IF st.progress >= Len(subject) THEN Raise(st, ps, "IndexError")
    ELSE IF CurrentSubjectCharacter(st) = ")"
    THEN IF Len(CurrentFrame(ps).children) = 0 THEN Raise(st, ps, "Exception")
         ELSE ParseConjunctionResolved(ps, ResolveRepetitions(Fresh(Advance(st))))
    ELSE Parsed(st, PushFrame(ps, Frame("unknown", <<>>, FALSE, <<>>)))

\* Parser._parse_conjunction, lines 96-109 with the result q of the name
\* expression's matches()
ParseConjunctionNamed(ps, q) ==
    IF q.r = "true"
    THEN ParseConjunctionClose(q.st,
             [ps EXCEPT !.stack[Len(ps.stack)].names =
                            Append(@, GetMatchString(q.st, "name"))])
    ELSE IF q.r = "false" THEN ParseConjunctionClose(q.st, ps)
    ELSE Raise(q.st, ps, q.r)

\* Parser._parse_conjunction
ParseConjunctionStep(st, ps) ==
    IF CurrentFrame(ps).first_time_parsing
    THEN ParseConjunctionNamed(
             [ps EXCEPT !.stack[Len(ps.stack)].first_time_parsing = FALSE,
                        !.stack[Len(ps.stack)].names = <<ps.group_count>>,
                        !.group_count = @ + 1],
             Matches(NamePattern, Fresh(st)))
    ELSE ParseConjunctionClose(st, ps)

\* Parser._parse_escaped: "\s" reaches self._pop_current(), which Parser
\* does not have, after it read the repetitions; any other character
\* reaches the assignment to the property self._current
ParseEscapedStep(st, ps) ==
    IF CurrentSubjectCharacter(st) = "s"
    THEN Raise(ResolveRepetitions(Fresh(Advance(st))).st, ps,
               IF ResolveRepetitions(Fresh(Advance(st))).r = "true"
               THEN "AttributeError"
               ELSE ResolveRepetitions(Fresh(Advance(st))).r)
    ELSE Raise(st, ps, "AttributeError")

\* Parser.parse, lines 33-38: after the loop
ParseReturnStep(st, ps) ==
    IF Len(ps.stack) > 1 THEN Raise(st, ps, "Exception")
    ELSE Parsed(st, [PopFrame(ps) EXCEPT
                        !.r = "returned",
                        !.root = GroupObject(CurrentFrame(ps).children,
                                             1, 1, TRUE, Names(<<0>>))])

\* the longest pattern of plain characters and parentheses
MaxPattern == 5

PlainChars == {"a", "b", "c", "(", ")"}

SyntaxChars == {"a", "s", "(", ")", "[", "]", "|", "\\", "?"}

\* the patterns parse() is run on: plain characters and parentheses up to
\* MaxPattern characters, all of the parser's syntax up to MaxText
\* characters, and named groups
Patterns ==
    UNION {[1..k -> PlainChars] : k \in 0..MaxPattern}
    \cup UNION {[1..k -> SyntaxChars] : k \in 0..MaxText}
    \cup {<<"(", "?", "P", "<", "a", "b", ">", "a", ")">>,
          <<"(", "?", "P", "<", "a", ">">>,
          <<"(", "?", "P", "<", "a", ">", ")">>}

\* a new Parser and a pattern
ParseInit ==
    \E t \in Patterns : Construct(ParserTrees, t, 0, NoCaps)

\* a step of the parser: the context and the parser become those of out
ParserStep(out) ==
    /\ progress' = out.st.progress
    /\ caps' = out.st.caps
    /\ parser' = out.ps
    /\ UNCHANGED <<tree, subject, stacks, last, hist, calls, trace>>

\* the while loop of Parser.parse runs the handler of state s
Handling(s) ==
    /\ parser.r = "parsing"
    /\ progress < Len(subject)
    /\ CurrentFrame(parser).state = s

\* Parser.parse, lines 27-29
CallParse ==
    /\ parser.r = "none"
    /\ ParserStep(Parsed(St(0, NoCaps, stacks, MaxFuel),
                         [PushFrame(parser, Frame("root", <<>>, FALSE, <<>>))
                             EXCEPT !.group_count = 1, !.r = "parsing"]))

ParseRoot == Handling("root") /\ ParserStep(ParseRootStep(Current, parser))

ParseUnknown ==
    Handling("unknown") /\ ParserStep(ParseUnknownStep(Current, parser))

ParseCharacter ==
    Handling("character") /\ ParserStep(ParseCharacterStep(Current, parser))

\* Parser._parse_character_group: pass
ParseCharacterGroup == Handling("character_group") /\ UNCHANGED vars

ParseConjunction ==
    Handling("conjunction") /\ ParserStep(ParseConjunctionStep(Current, parser))

\* Parser._parse_disjunction: a docstring and no statement
ParseDisjunction == Handling("disjunction") /\ UNCHANGED vars

ParseEscaped ==
    Handling("escaped") /\ ParserStep(ParseEscapedStep(Current, parser))

ParseReturn ==
    /\ parser.r = "parsing"
    /\ progress >= Len(subject)
    /\ ParserStep(ParseReturnStep(Current, parser))

ParseNext ==
    \/ CallParse
    \/ ParseRoot
    \/ ParseUnknown
    \/ ParseCharacter
    \/ ParseCharacterGroup
    \/ ParseConjunction
    \/ ParseDisjunction
    \/ ParseEscaped
    \/ ParseReturn

ParseSpec == ParseInit /\ [][ParseNext]_vars

----------------------------------------------------------------------------
(* The properties *)

Kind(n) == tree[n].kind

Nodes == DOMAIN tree

Failed(op) == last.op = op /\ last.r = "false"

Succeeded(op) == last.op = op /\ last.r = "true"

\* C1: for every node type, subject and cursor, when matches() returns false
\* the cursor equals its value immediately before the call
CursorRestored == Failed("matches") => progress = last.pre.progress

\* matches() returned false after its loop had consumed a character: a
\* CharacterExpression that needs two 'a' stood before exactly one
CursorRestoredWitness ==
    /\ Failed("matches")
    /\ Kind(Root) = "char" /\ tree[Root].min = 2 /\ tree[Root].char = "a"
    /\ progress + 2 <= Len(subject)
    /\ subject[progress + 1] = "a" /\ subject[progress + 2] = "b"

\* C2: when matches() returns false, the attempt stacks of the node and of
\* all its descendants and the capture table are as they were before the call
StateRestored ==
    Failed("matches") => stacks = last.pre.stacks /\ caps = last.pre.caps

\* C3: the tree of (a+a{2,}a){3,}a, all nodes greedy, returns true from a
\* top-level matches() on sixteen 'a'
SixteenAsMatch ==
    (tree = A16Tree /\ subject = As(16) /\ calls = 1 /\ last.op = "matches")
        => last.r = "true"

\* the match of the sixteen 'a': the nested group holds three repetitions
\* and left one 'a' to the last child
SixteenAsWitness ==
    /\ tree = A16Tree /\ subject = As(16) /\ calls = 1 /\ Succeeded("matches")
    /\ progress = 16
    /\ Len(stacks[2][1]) = 3
    /\ stacks[2][1][3].end = 15

\* The cursors a node can stop at when it starts at a cursor of P and repeats
\* between min_repetitions and max_repetitions times, by the meaning of the
\* pattern alone: OnceEnds is one repetition, TimesEnds the repetitions
\* from the k-th on.  A repetition that consumes nothing reaches no new
\* cursor, so without a maximum min_repetitions + len(subject) repetitions
\* reach every cursor there is to reach.
RECURSIVE Ends(_, _), OnceEnds(_, _), SequenceEnds(_, _, _), TimesEnds(_, _, _)

SequenceEnds(n, child, P) ==
    IF child > Len(tree[n].children) THEN P
    ELSE SequenceEnds(n, child + 1, Ends(tree[n].children[child], P))

OnceEnds(n, P) ==
    CASE Kind(n) = "char" ->
            {p + 1 : p \in {q \in P : q < Len(subject) /\ subject[q + 1] = tree[n].char}}
      [] Kind(n) = "range" ->
            {p + 1 : p \in {q \in P : /\ q < Len(subject)
                                      /\ Ord(tree[n].lo) <= Ord(subject[q + 1])
                                      /\ Ord(subject[q + 1]) <= Ord(tree[n].hi)}}
      [] Kind(n) = "group" -> SequenceEnds(n, 1, P)
      [] Kind(n) = "anyof" ->
            UNION {Ends(tree[n].children[i], P) : i \in DOMAIN tree[n].children}
      [] OTHER -> {}

TimesEnds(n, k, P) ==
    LET most == IF tree[n].max = Inf THEN tree[n].min + Len(subject)
                ELSE tree[n].max
    IN  IF k > most \/ P = {} THEN {}
        ELSE (IF k >= tree[n].min THEN P ELSE {})
             \cup TimesEnds(n, k + 1, OnceEnds(n, P))

Ends(n, P) == TimesEnds(n, 0, P)

PlainTree == \A n \in Nodes : Kind(n) \in {"char", "range", "group"}

\* C4: on a tree of Literal and Range leaves and Groups, a top-level
\* matches() returns true iff some choice of repetition counts within every
\* node's limits matches a prefix of the rest of the subject
MatchesIffPrefixMatch ==
    (PlainTree /\ calls = 1 /\ last.op = "matches")
        => (last.r = "true" <=> Ends(Root, {last.pre.progress}) # {})

\* What the nodes consumed, read from the leaves: the repetitions of a leaf
\* record the characters they matched, and the j-th repetition a group made
\* (counted over all its attempts) is the j-th attempt of each of its
\* children.  An extent is [has, start, end]; has is FALSE when nothing was
\* matched.
NoExtent == [has |-> FALSE, start |-> 0, end |-> 0]

Join(x, y) ==
    IF ~x.has THEN y
    ELSE IF ~y.has THEN x
    ELSE [has |-> TRUE, start |-> x.start, end |-> y.end]

RECURSIVE RepetitionsBefore(_, _)
RepetitionsBefore(n, a) ==
    IF a <= 1 THEN 0 ELSE RepetitionsBefore(n, a - 1) + Len(stacks[n][a - 1])

RECURSIVE Extent(_, _), ChildrenExtent(_, _, _), RepetitionsExtent(_, _, _)

\* what the children of group n consumed in their j-th attempt, from child on
ChildrenExtent(n, child, j) ==
    IF child > Len(tree[n].children) THEN NoExtent
    ELSE Join(Extent(tree[n].children[child], j), ChildrenExtent(n, child + 1, j))

RepetitionsExtent(n, from, to) ==
    IF from > to THEN NoExtent
    ELSE Join(ChildrenExtent(n, 1, from), RepetitionsExtent(n, from + 1, to))

\* what attempt a of node n consumed
Extent(n, a) ==
    IF a < 1 \/ a > Len(stacks[n]) THEN NoExtent
    ELSE IF Kind(n) = "group"
    THEN RepetitionsExtent(n, RepetitionsBefore(n, a) + 1,
                           RepetitionsBefore(n, a) + Len(stacks[n][a]))
    ELSE IF Len(stacks[n][a]) = 0 THEN NoExtent
    ELSE [has |-> TRUE, start |-> stacks[n][a][1].start,
          end |-> stacks[n][a][Len(stacks[n][a])].end]

\* the last attempt of node n that holds a repetition, 0 when there is none
RECURSIVE FinalAttempt(_, _)
FinalAttempt(n, a) ==
    IF a < 1 THEN 0
    ELSE IF Len(stacks[n][a]) > 0 THEN a
    ELSE FinalAttempt(n, a - 1)

\* TRUE when span is the range the final repetition of node n consumed
IsFinalRepetition(n, span) ==
    LET a == FinalAttempt(n, Len(stacks[n]))
        rep == stacks[n][a][Len(stacks[n][a])]
        e == ChildrenExtent(n, 1, RepetitionsBefore(n, a) + Len(stacks[n][a]))
    IN  /\ a > 0
        /\ IF Kind(n) = "group"
           THEN IF e.has THEN span = [start |-> e.start, end |-> e.end]
                ELSE span.start = span.end
           ELSE span = [start |-> rep.start, end |-> rep.end]

Carriers(k) ==
    {n \in Nodes : \E i \in DOMAIN tree[n].names : tree[n].names[i] = k}

\* C5: after a top-level matches() that returns true, the top span under
\* every identifier of the capture table is the range the final repetition
\* of the node carrying the identifier consumed
CapturesConsistent ==
    (Succeeded("matches") /\ \A n \in Nodes : Kind(n) # "anyof")
        => \A k \in DOMAIN caps :
              (Len(caps[k]) > 0 /\ Cardinality(Carriers(k)) = 1)
                  => IsFinalRepetition(CHOOSE n \in Carriers(k) : TRUE,
                                       caps[k][Len(caps[k])])

\* the spans published under identifier k in capture table c
Published(c, k) == IF k \in DOMAIN c THEN c[k] ELSE <<>>

NamesOf(n) == {tree[n].names[i] : i \in DOMAIN tree[n].names}

\* the repetitions of the root's current attempt before the last call
AttemptBefore == last.pre.stacks[Root][Len(last.pre.stacks[Root])]

\* C6: a matches() that succeeds with zero repetitions publishes no
\* capture under the names of its node, and Group(Literal 'a' min 0 named
\* foo, Literal 'b') matches "b" with no entry foo in the capture table
NoCaptureOfNothing ==
    /\ (Succeeded("matches") /\ Len(CurrentMatch(Current, Root)) = 0)
           => \A k \in NamesOf(Root) :
                 /\ k \in DOMAIN caps <=> k \in DOMAIN last.pre.caps
                 /\ Published(caps, k) = Published(last.pre.caps, k)
    /\ (tree = OptionalFooTree("a") /\ subject = <<"b">> /\ calls = 1
            /\ last.pre.progress = 0)
           => Succeeded("matches") /\ "foo" \notin DOMAIN caps

\* (?P<foo>a)?b has matched "b": the child named foo holds an attempt
\* without repetitions
NoCaptureOfNothingWitness ==
    /\ tree = OptionalFooTree("a") /\ subject = <<"b">> /\ calls = 1
    /\ Succeeded("matches") /\ progress = 1
    /\ stacks[2] = <<<<>>>>
    /\ "foo" \notin DOMAIN caps

\* C7: a retry() on a named node that returns true and leaves the attempt
\* without repetitions removes the span the attempt had published under
\* every name of the node, and after Group(Literal 'b' min 0 named foo,
\* Literal 'b') has matched "b" no span is published under foo
EmptiedCaptureRemoved ==
    /\ (Succeeded("retry") /\ Len(CurrentMatch(Current, Root)) = 0
            /\ Len(AttemptBefore) > 0)
           => \A k \in NamesOf(Root) :
                 Published(caps, k) = Front(Published(last.pre.caps, k))
    /\ (tree = OptionalFooTree("b") /\ subject = <<"b">> /\ calls = 1
            /\ last.pre.progress = 0 /\ Succeeded("matches"))
           => Published(caps, "foo") = <<>>

Leaf(n) == Kind(n) \in {"char", "range", "backref"}

\* the root's retry() had nothing left to try: a greedy leaf at
\* min_repetitions, a non-greedy leaf at max_repetitions
CannotAdvance ==
    /\ last.op = "retry"
    /\ Leaf(Root)
    /\ Len(AttemptBefore) = IF tree[Root].greedy THEN tree[Root].min
                            ELSE tree[Root].max

\* C8: a retry() that cannot advance returns false and leaves the cursor,
\* the capture table and the attempt stack as they were before the matches()
\* call that made the attempt, for named and unnamed nodes and attempts with
\* and without repetitions
ExhaustedRetryRestores ==
    CannotAdvance => last.r = "false" /\ Snapshot = last.base

\* C9: matches() returning true, then retry() calls returning true, then
\* undo() leave the cursor, the capture table and all attempt stacks as
\* they were before the matches() call
UndoRestores ==
    last.op = "undo" => last.r = "true" /\ Snapshot = last.base

\* the primitive step of the root, a Literal or Range, matches at cursor p
StepMatches(p) ==
    /\ p < Len(subject)
    /\ IF Kind(Root) = "char" THEN subject[p + 1] = tree[Root].char
       ELSE /\ Ord(tree[Root].lo) <= Ord(subject[p + 1])
            /\ Ord(subject[p + 1]) <= Ord(tree[Root].hi)

\* C10: retry() on a non-greedy leaf returns true or false at every cursor;
\* true appends one repetition matched at the cursor and moves the cursor
\* to its end; it is false exactly when the attempt holds max_repetitions
\* spans or the primitive step cannot match at the cursor, and then the
\* cursor is back at the start of the attempt
NonGreedyRetryGrows ==
    (last.op = "retry" /\ Kind(Root) \in {"char", "range"} /\ ~tree[Root].greedy)
        => /\ last.r \in {"true", "false"}
           /\ last.r = "false" <=>
                 \/ AtLimit(Len(AttemptBefore), tree[Root].max)
                 \/ ~StepMatches(last.pre.progress)
           /\ last.r = "true" =>
                 /\ CurrentMatch(Current, Root) =
                       Append(AttemptBefore,
                              Span(last.pre.progress, last.pre.progress + 1))
                 /\ progress = last.pre.progress + 1
           /\ last.r = "false" => progress = last.base.progress

\* the operations of the calls made so far are the first ones of ops, and
\* the first call started at cursor 0
Ran(ops) ==
    /\ Len(trace) >= 1
    /\ trace[1].from = 0
    /\ \A i \in DOMAIN trace : i \in DOMAIN ops /\ trace[i].op = ops[i]

\* the calls made so far have the outcomes and left the cursors of outs
Gave(outs) ==
    \A i \in DOMAIN trace :
        trace[i].r = outs[i][1] /\ trace[i].progress = outs[i][2]

\* C11: Literal 'a' min 1 without maximum on "aaaa" from cursor 0: the
\* greedy node's matches() succeeds with the cursor at 4; the non-greedy
\* node's matches() succeeds with the cursor at 1, its next three retry()
\* succeed with the cursor at 2, 3 and 4, and the retry() after them
\* returns false with the cursor back at 0
GreedyNonGreedyDuality ==
    /\ (tree = PlusTree(TRUE) /\ subject = As(4) /\ Ran(<<"matches">>))
           => Gave(<<<<"true", 4>>>>)
    /\ (tree = PlusTree(FALSE) /\ subject = As(4)
            /\ Ran(<<"matches", "retry", "retry", "retry", "retry">>))
           => Gave(<<<<"true", 1>>, <<"true", 2>>, <<"true", 3>>,
                     <<"true", 4>>, <<"false", 0>>>>)

\* C12: a retry() on a greedy leaf whose attempt holds more than
\* min_repetitions spans returns true, removes the attempt's last span and
\* sets the cursor to that span's start; on an attempt of min_repetitions
\* spans it returns false and discards the attempt.  An attempt of k spans
\* so gives k - min_repetitions retry() calls that return true and then one
\* that returns false.
GreedyRetryShrinks ==
    (last.op = "retry" /\ Leaf(Root) /\ tree[Root].greedy)
        => IF Len(AttemptBefore) > tree[Root].min
           THEN /\ last.r = "true"
                /\ stacks[Root] = Append(Front(last.pre.stacks[Root]),
                                         Front(AttemptBefore))
                /\ progress = AttemptBefore[Len(AttemptBefore)].start
           ELSE /\ last.r = "false"
                /\ stacks[Root] = Front(last.pre.stacks[Root])

\* the span published last under identifier k
TopCapture(k) == caps[k][Len(caps[k])]

\* the capture table holds the root's last repetition on top of the stack of
\* every name of the root, and no stack is deeper than before the last call
Overwritten ==
    \A k \in NamesOf(Root) :
        /\ k \in DOMAIN caps /\ k \in DOMAIN last.pre.caps
        /\ Len(caps[k]) = Len(last.pre.caps[k])
        /\ TopCapture(k) = [start |-> CurrentRepetition(Current, Root).start,
                            end |-> CurrentRepetition(Current, Root).end]

LiteralAlternation(n) ==
    /\ Kind(n) = "anyof"
    /\ \A i \in DOMAIN tree[n].children : Kind(tree[n].children[i]) = "char"

\* the root is a Group of leaves and of at least one Alternation of Literals
GroupOverAlternation ==
    /\ Kind(Root) = "group"
    /\ \E i \in DOMAIN tree[Root].children :
          LiteralAlternation(tree[Root].children[i])
    /\ \A i \in DOMAIN tree[Root].children :
          \/ LiteralAlternation(tree[Root].children[i])
          \/ Kind(tree[Root].children[i]) \in {"char", "range"}

\* C14: ((ab)|a)b returns true on "ab", and a Group containing an
\* Alternation over literal children returns true iff some choice of child
\* per repetition lets the whole sequence match a prefix of the subject
AlternationExplored ==
    /\ (tree = AbOrATree /\ subject = <<"a", "b">> /\ Ran(<<"matches">>))
           => trace[1].r = "true"
    /\ (GroupOverAlternation /\ calls = 1 /\ last.op = "matches")
           => (last.r = "true" <=> Ends(Root, {last.pre.progress}) # {})

\* the root is an Alternation of leaves
AlternationOfLeaves ==
    /\ Kind(Root) = "anyof"
    /\ \A i \in DOMAIN tree[Root].children : Leaf(tree[Root].children[i])

\* the first child of the root, in declaration order, that matches at cursor p
FirstMatching(p) ==
    CHOOSE i \in DOMAIN tree[Root].children :
        /\ Ends(tree[Root].children[i], {p}) # {}
        /\ \A j \in 1..(i - 1) : Ends(tree[Root].children[j], {p}) = {}

\* the repetitions of the root's attempt in which its i-th child matched
StepsOf(i) ==
    {j \in DOMAIN CurrentMatch(Current, Root) :
        CurrentMatch(Current, Root)[j].mc = i - 1}

\* the cursor at which the j-th primitive step of the last matches() began
StepStart(j) ==
    IF j = 1 THEN last.pre.progress
    ELSE CurrentMatch(Current, Root)[j - 1].end

\* C15: a primitive step of an Alternation records {start: the cursor
\* before, end: the cursor after, matching_child: the index of the first
\* child in declaration order that matches at that cursor}; the children
\* tried before it keep their attempt stacks, the children after it are not
\* attempted, and only the matching child gains an attempt
AlternationStepFirstChild ==
    (Succeeded("matches") /\ AlternationOfLeaves)
        => /\ \A j \in DOMAIN CurrentMatch(Current, Root) :
                 /\ Ends(tree[Root].children[FirstMatching(StepStart(j))],
                         {StepStart(j)}) # {}
                 /\ CurrentMatch(Current, Root)[j].start = StepStart(j)
                 /\ CurrentMatch(Current, Root)[j].mc =
                        FirstMatching(StepStart(j)) - 1
                 /\ CurrentMatch(Current, Root)[j].end \in
                        Ends(tree[Root].children[FirstMatching(StepStart(j))],
                             {StepStart(j)})
           /\ progress = StepStart(Len(CurrentMatch(Current, Root)) + 1)
           /\ \A i \in DOMAIN tree[Root].children :
                 /\ Len(stacks[tree[Root].children[i]]) =
                        Len(last.pre.stacks[tree[Root].children[i]])
                        + Cardinality(StepsOf(i))
                 /\ SubSeq(stacks[tree[Root].children[i]], 1,
                           Len(last.pre.stacks[tree[Root].children[i]]))
                        = last.pre.stacks[tree[Root].children[i]]

\* the second child of an Alternation matched after the first was tried
\* and failed: the first child's stack is empty, the second holds an attempt
AlternationStepWitness ==
    /\ Succeeded("matches") /\ AlternationOfLeaves /\ calls = 1
    /\ Len(CurrentMatch(Current, Root)) = 1
    /\ CurrentMatch(Current, Root)[1].mc = 1
    /\ CurrentMatch(Current, Root)[1].end = progress
    /\ stacks[tree[Root].children[1]] = <<>>
    /\ Len(stacks[tree[Root].children[2]]) = 1

\* C16: (a)\1, the group named 1, returns true from a top-level matches()
\* on "aa" with the cursor at 2, and false on "ab" with the cursor at 0 and
\* an empty capture table
BackReferenceSelfConsistent ==
    (tree = ABackRefTree /\ Ran(<<"matches">>))
        => /\ subject = <<"a", "a">> => Gave(<<<<"true", 2>>>>)
           /\ subject = <<"a", "b">>
                 => Gave(<<<<"false", 0>>>>) /\ caps = NoCaps

\* (a)\1 has matched "aa": the group published {0,1} under 1 and the back
\* reference consumed the second 'a'
BackReferenceSelfConsistentWitness ==
    /\ tree = ABackRefTree /\ subject = <<"a", "a">> /\ calls = 1
    /\ Succeeded("matches") /\ progress = 2
    /\ caps = [k \in {"1"} |-> <<[start |-> 0, end |-> 1]>>]
    /\ stacks[4] = <<<<Span(1, 2)>>>>

\* the identifier of the root, a BackReference, had no entry in the capture
\* table when the last call began
Unset == Kind(Root) = "backref" /\ tree[Root].ref \notin DOMAIN last.pre.caps

\* C17: matches() on a BackReference whose identifier has no live entry in
\* the capture table fails with the unset-reference error, at every cursor
\* in [0, len(subject)] and for every min_repetitions; it never returns
\* true or false
UnsetReferenceFails ==
    (last.op = "matches" /\ Unset) => last.r = "KeyError"

\* the root is a BackReference and the span on top of the stack of its
\* identifier was empty when the last call began
EmptyReference ==
    /\ Kind(Root) = "backref"
    /\ tree[Root].ref \in DOMAIN last.pre.caps
    /\ LET c == last.pre.caps[tree[Root].ref] IN c[Len(c)].start = c[Len(c)].end

\* C18: a BackReference to an empty capture is a zero-width match at every
\* cursor in [0, len(subject)]: matches() with min_repetitions 1 returns
\* true and leaves the cursor where it was
EmptyReferenceMatches ==
    (last.op = "matches" /\ EmptyReference /\ tree[Root].min = 1)
        => Succeeded("matches") /\ progress = last.pre.progress

\* the string captured last under the root's identifier before the last call
Captured ==
    LET c == last.pre.caps[tree[Root].ref]
    IN  [i \in 1..(c[Len(c)].end - c[Len(c)].start) |->
            subject[c[Len(c)].start + i]]

\* the subject from cursor p on starts with the string s
StartsAt(p, s) ==
    /\ p + Len(s) <= Len(subject)
    /\ \A i \in DOMAIN s : subject[p + i] = s[i]

\* C19: the primitive step of a BackReference reads the top span under its
\* identifier and returns {start: cursor, end: cursor + length of the
\* captured string} iff the remaining subject starts with the captured
\* string, and none otherwise; the cursor and the capture table stay as
\* they were
BackReferenceStep ==
    (last.op = "matches_once" /\ Kind(Root) = "backref" /\ ~Unset)
        => /\ IF StartsAt(last.pre.progress, Captured)
              THEN /\ last.r = "true"
                   /\ last.m = Span(last.pre.progress,
                                    last.pre.progress + Len(Captured))
              ELSE last.r = "false" /\ last.m = None
           /\ progress = last.pre.progress
           /\ caps = last.pre.caps

\* the step of a reference to the capture {0,1} has matched the second
\* character of a subject that starts with "aa"
BackReferenceStepWitness ==
    /\ last.op = "matches_once" /\ Kind(Root) = "backref"
    /\ last.pre.caps = [k \in {"foo"} |-> <<[start |-> 0, end |-> 1]>>]
    /\ Len(subject) = 3 /\ subject[1] = "a" /\ subject[2] = "a"
    /\ last.pre.progress = 1
    /\ last.r = "true" /\ last.m = Span(1, 2)
    /\ progress = 1

\* the root's matches() has run twice, each time from cursor 0 with an
\* empty capture table, the second time in a new context made after the
\* first run returned true or false
RanTwice ==
    /\ Len(trace) >= 3
    /\ trace[1].op = "matches" /\ trace[1].from = 0 /\ trace[1].had = NoCaps
    /\ trace[1].r \in {"true", "false"}
    /\ trace[2].op = "context"
    /\ trace[3].op = "matches"

\* C20: a top-level matches() run twice on the same tree and subject, each
\* time with a fresh context, gives the same result, the same final cursor
\* and the same capture table, whether the first run returned true or false
RematchIdentical ==
    RanTwice
        => /\ trace[3].r = trace[1].r
           /\ trace[3].progress = trace[1].progress
           /\ trace[3].caps = trace[1].caps

\* a group has matched twice with fresh contexts: it holds two attempts,
\* consumed characters and published a capture in both runs
RematchIdenticalWitness ==
    /\ RanTwice /\ Len(trace) = 3
    /\ Kind(Root) = "group"
    /\ trace[1].r = "true" /\ trace[1].progress > 0
    /\ trace[1].caps # NoCaps
    /\ Len(stacks[Root]) = 2
    /\ progress = trace[1].progress /\ caps = trace[1].caps

\* the root's matches() has been called once, from cursor 0 with an empty
\* capture table, and returned true or false
RanOnce ==
    /\ Len(trace) = 1
    /\ trace[1].op = "matches" /\ trace[1].from = 0 /\ trace[1].had = NoCaps
    /\ trace[1].r \in {"true", "false"}

\* C21: after a top-level matches() with a fresh context, whether it
\* returned true or false, the attempt stack of every node is empty
StacksEmptyAfterMatch ==
    RanOnce => \A n \in Nodes : stacks[n] = <<>>

\* the root is a Group of leaves
GroupOfLeaves ==
    /\ Kind(Root) = "group"
    /\ \A i \in DOMAIN tree[Root].children : Leaf(tree[Root].children[i])

\* the attempt the i-th child of the root made in the j-th primitive step
\* of the last matches()
ChildAttempt(j, i) ==
    stacks[tree[Root].children[i]]
          [Len(last.pre.stacks[tree[Root].children[i]]) + j]

\* the cursor after the first i children in the j-th primitive step: the
\* end of the last repetition of the last of them that matched at least once
RECURSIVE ChildEnd(_, _)
ChildEnd(j, i) ==
    IF i = 0 THEN StepStart(j)
    ELSE IF Len(ChildAttempt(j, i)) > 0
    THEN ChildAttempt(j, i)[Len(ChildAttempt(j, i))].end
    ELSE ChildEnd(j, i - 1)

\* C22: a successful primitive step of a Group leaves exactly one new
\* attempt on each child's stack, each child starting at the cursor where
\* the child before it ended, and records {start: the cursor before the
\* step, end: the end of the last repetition of the last child that matched
\* at least once}
GroupStepInOrder ==
    (Succeeded("matches") /\ GroupOfLeaves)
        => /\ \A i \in DOMAIN tree[Root].children :
                 /\ Len(stacks[tree[Root].children[i]]) =
                        Len(last.pre.stacks[tree[Root].children[i]])
                        + Len(CurrentMatch(Current, Root))
                 /\ SubSeq(stacks[tree[Root].children[i]], 1,
                           Len(last.pre.stacks[tree[Root].children[i]]))
                        = last.pre.stacks[tree[Root].children[i]]
           /\ \A j \in DOMAIN CurrentMatch(Current, Root) :
                 /\ CurrentMatch(Current, Root)[j].start = StepStart(j)
                 /\ CurrentMatch(Current, Root)[j].end =
                        ChildEnd(j, Len(tree[Root].children))
                 /\ \A i \in DOMAIN tree[Root].children :
                        Len(ChildAttempt(j, i)) > 0
                            => ChildAttempt(j, i)[1].start = ChildEnd(j, i - 1)
           /\ progress = StepStart(Len(CurrentMatch(Current, Root)) + 1)

\* a+ followed by a has matched "aa" in one step: the first child gave one
\* 'a' back, each child holds one attempt and the group recorded {0,2}
GroupStepWitness ==
    /\ Succeeded("matches") /\ GroupOfLeaves /\ calls = 1
    /\ tree[Root].max = 1
    /\ tree[2].max = Inf /\ tree[2].greedy
    /\ stacks[Root] = <<<<Span(0, 2)>>>>
    /\ stacks[2] = <<<<Span(0, 1)>>>>
    /\ stacks[3] = <<<<Span(1, 2)>>>>
    /\ progress = 2

\* the attempts of node n that hold at least one repetition
FilledAttempts(n) == {a \in DOMAIN stacks[n] : Len(stacks[n][a]) > 0}

\* the children of Groups that may repeat zero times and carry names no
\* other node carries
OptionalNamedChildren ==
    {n \in Nodes :
        /\ tree[n].min = 0 /\ NamesOf(n) # {}
        /\ \A k \in NamesOf(n) : Carriers(k) = {n}
        /\ \E g \in Nodes :
              /\ Kind(g) = "group"
              /\ \E i \in DOMAIN tree[g].children : tree[g].children[i] = n}

\* the end of the current repetition of the last of the first i children of
\* the root that has one; the cursor when none has
RECURSIVE LastChildEnd(_)
LastChildEnd(i) ==
    IF i = 0 THEN progress
    ELSE IF HasCurrentRepetition(Current, tree[Root].children[i])
    THEN CurrentRepetition(Current, tree[Root].children[i]).end
    ELSE LastChildEnd(i - 1)

\* C23: a Group child with min_repetitions 0 whose attempt holds zero
\* repetitions is no failure and contributes no capture and no span bound,
\* forward and backward: (a?bc?)b returns true on "bb"; after a top-level
\* matches() that returned true the capture stacks of such a child hold one
\* span for each of its attempts with a repetition and none for the others;
\* and the span a Group's retry() records ends with the last child that has
\* a repetition
ZeroRepetitionChildSkipped ==
    /\ (tree = OptionalABCTree /\ subject = <<"b", "b">> /\ Ran(<<"matches">>))
           => Gave(<<<<"true", 2>>>>)
    /\ (RanOnce /\ Succeeded("matches"))
           => \A n \in OptionalNamedChildren : \A k \in NamesOf(n) :
                 Len(Published(caps, k)) = Cardinality(FilledAttempts(n))
    /\ (Succeeded("retry") /\ GroupOfLeaves
            /\ Len(CurrentMatch(Current, Root)) > 0)
           => CurrentRepetition(Current, Root).end =
                  LastChildEnd(Len(tree[Root].children))

\* C24: in every reachable state of the capture table an identifier is a
\* key iff its stack of spans is not empty: no key maps to an empty stack
NoEmptyCaptureStack == \A k \in DOMAIN caps : Len(caps[k]) > 0

\* an undo() has popped the only span under foo and the key is gone
NoEmptyCaptureStackWitness ==
    /\ Succeeded("undo")
    /\ "foo" \in DOMAIN last.pre.caps
    /\ Len(last.pre.caps["foo"]) = 1
    /\ "foo" \notin DOMAIN caps

\* the nodes with several capture names, each carried by that node only
Aliased ==
    {n \in Nodes :
        /\ Cardinality(NamesOf(n)) > 1
        /\ \A k \in NamesOf(n) : Carriers(k) = {n}}

\* C25: for a node with several capture names, each used by that node
\* only, the stacks stored under all its names are identical after any
\* sequence of matches(), retry() and undo() calls
AliasesAgree ==
    \A n \in Aliased : \A k1, k2 \in NamesOf(n) :
        Published(caps, k1) = Published(caps, k2)

\* a node named 1 and foo has matched twice and been retried: both stacks
\* hold the same two spans
AliasesAgreeWitness ==
    /\ Root \in Aliased
    /\ Succeeded("retry")
    /\ calls = 3
    /\ Len(Published(caps, "foo")) = 2
    /\ Published(caps, "1") = Published(caps, "foo")
    /\ Published(caps, "foo")[2] # Published(last.pre.caps, "foo")[2]

\* the names of the root that no other node carries
OwnNames == {k \in NamesOf(Root) : Carriers(k) = {Root}}

\* the span of the last repetition of the root's attempt a
LastRepetitionSpan(a) == CopyKeys(stacks[Root][a][Len(stacks[Root][a])])

\* the root's matches() has just returned true with at least one repetition
MatchedWithRepetition ==
    /\ Succeeded("matches")
    /\ Len(stacks[Root]) > 0
    /\ Len(stacks[Root][Len(stacks[Root])]) > 0

\* every call so far was a matches() or retry() of the root that returned
\* true, and every attempt of the root holds a repetition
OnlySuccessfulAttempts ==
    /\ Len(trace) > 0
    /\ \A j \in DOMAIN trace :
           trace[j].op \in {"matches", "retry"} /\ trace[j].r = "true"
    /\ \A a \in DOMAIN stacks[Root] : Len(stacks[Root][a]) > 0

\* C26: each matches() that returns true on a named node holding at least
\* one repetition pushes exactly one new entry, the span of the attempt's
\* last repetition, onto the capture stack of every name of the node; after
\* m such successful attempts without undo each stack holds m spans in
\* attempt order
MatchPushesLastRepetition ==
    /\ MatchedWithRepetition
           => \A k \in OwnNames :
                 /\ caps[k] = Append(Published(last.pre.caps, k),
                                     LastRepetitionSpan(Len(stacks[Root])))
                 /\ TopCapture(k).end = progress
                 /\ TopCapture(k).start >= last.pre.progress
                 /\ ~IsIterator(Root)
                        => TopCapture(k) = [start |-> progress - 1,
                                            end |-> progress]
    /\ OnlySuccessfulAttempts
           => \A k \in OwnNames :
                 /\ Len(caps[k]) =
                        Len(Published(trace[1].had, k)) + Len(stacks[Root])
                 /\ \A a \in DOMAIN stacks[Root] :
                        caps[k][Len(Published(trace[1].had, k)) + a] =
                            LastRepetitionSpan(a)

\* a node named 1 and foo has matched twice, with two repetitions and then
\* with one: each stack holds the span of the second repetition and then
\* that of the third
MatchPushesLastRepetitionWitness ==
    /\ MatchedWithRepetition /\ OnlySuccessfulAttempts
    /\ OwnNames = {"1", "foo"}
    /\ Len(trace) = 2 /\ \A j \in 1..2 : trace[j].op = "matches"
    /\ Len(stacks[Root][1]) = 2 /\ Len(stacks[Root][2]) = 1
    /\ caps["foo"] = <<[start |-> 1, end |-> 2], [start |-> 2, end |-> 3]>>
    /\ caps["1"] = caps["foo"]

\* the primitive step of the root, a Literal or Range, has just run
LeafStepped == last.op = "matches_once" /\ Kind(Root) \in {"char", "range"}

\* C27: the primitive step of a Range returns the span {cursor, cursor + 1}
\* iff the character at the cursor lies between its bounds by code point,
\* both included, and none otherwise; that of a Literal does so iff the
\* character equals its own; neither changes the cursor, the capture table
\* or any attempt stack
LeafStep ==
    LeafStepped
        => /\ last.r \in {"true", "false"}
           /\ last.r = "true" <=> StepMatches(last.pre.progress)
           /\ last.r = "true"
                 => last.m = Span(last.pre.progress, last.pre.progress + 1)
           /\ Snapshot = last.pre

\* the claim of C27 at the cursors that have a character
LeafStepInsideSubject ==
    (LeafStepped /\ last.pre.progress < Len(subject))
        => /\ last.r \in {"true", "false"}
           /\ last.r = "true" <=> StepMatches(last.pre.progress)
           /\ last.r = "true"
                 => last.m = Span(last.pre.progress, last.pre.progress + 1)
           /\ Snapshot = last.pre

\* the number a string of decimal digits denotes, digit by position
RECURSIVE Denoted(_, _)
Denoted(s, i) ==
    IF i > Len(s) THEN 0
    ELSE DigitValue(s[i]) * 10^(Len(s) - i) + Denoted(s, i + 1)

\* the positions i..j-1 of the pattern hold digits only (none when i = j)
DigitsFrom(i, j) == \A x \in i..(j - 1) : DigitValue(subject[x]) >= 0

\* the bound written at positions i..j-1, absent when i = j
BoundAt(i, j, absent) ==
    IF i = j THEN absent ELSE Denoted(SubSeq(subject, i, j - 1), 1)

\* the quantifiers the pattern shows at cursor p, each with the number of
\* characters it takes and its bounds: * + ? {n} {m,n}
QuantifiersAt(p) ==
    IF p >= Len(subject) THEN {}
    ELSE
      {[len |-> 1, min |-> 0, max |-> Inf] : x \in {1} \cap
            {IF subject[p + 1] = "*" THEN 1 ELSE 0}}
      \cup {[len |-> 1, min |-> 1, max |-> Inf] : x \in {1} \cap
            {IF subject[p + 1] = "+" THEN 1 ELSE 0}}
      \cup {[len |-> 1, min |-> 0, max |-> 1] : x \in {1} \cap
            {IF subject[p + 1] = "?" THEN 1 ELSE 0}}
      \cup {[len |-> j - p, min |-> BoundAt(p + 2, j, 0),
             max |-> BoundAt(p + 2, j, 0)] :
               j \in {j \in (p + 3)..Len(subject) :
                        /\ subject[p + 1] = "{" /\ subject[j] = "}"
                        /\ DigitsFrom(p + 2, j)}}
      \cup {[len |-> jk[2] - p, min |-> BoundAt(p + 2, jk[1], 0),
             max |-> BoundAt(jk[1] + 1, jk[2], Inf)] :
               jk \in {jk \in ((p + 2)..Len(subject)) \X ((p + 3)..Len(subject)) :
                        /\ jk[1] < jk[2]
                        /\ subject[p + 1] = "{" /\ subject[jk[1]] = ","
                        /\ subject[jk[2]] = "}"
                        /\ DigitsFrom(p + 2, jk[1])
                        /\ DigitsFrom(jk[1] + 1, jk[2])}}

\* a '?' stands right after the first n characters from cursor p
LazyAfter(p, n) == p + n < Len(subject) /\ subject[p + n + 1] = "?"

Resolving == last.op = "_resolve_repetitions"

\* C28: _resolve_repetitions, run with the cursor at a quantifier, returns
\* * as (0, unbounded), + as (1, unbounded), ? as (0, 1), {n} as (n, n),
\* {m,n} as (m, n) with an absent m meaning 0 and an absent n unbounded;
\* greedy is false iff a '?' directly follows the quantifier; the cursor
\* ends just after the quantifier text; with no quantifier at the cursor the
\* result is (1, 1, greedy) and the cursor is unchanged
RepetitionsResolved ==
    Resolving
        => /\ last.r = "true"
           /\ Cardinality(QuantifiersAt(last.pre.progress)) <= 1
           /\ QuantifiersAt(last.pre.progress) = {}
                 => /\ last.m = Repetitions(1, 1, TRUE)
                    /\ progress = last.pre.progress
           /\ \A q \in QuantifiersAt(last.pre.progress) :
                 /\ last.m = Repetitions(q.min, q.max,
                                         ~LazyAfter(last.pre.progress, q.len))
                 /\ progress = last.pre.progress + q.len
                       + (IF LazyAfter(last.pre.progress, q.len) THEN 1 ELSE 0)

\* "{2,20}?" after an earlier quantifier of the pattern: bounds 2 and 20,
\* not greedy, the cursor behind the '?'
RepetitionsResolvedWitness ==
    /\ Resolving
    /\ subject = <<"{", "2", ",", "2", "0", "}", "?">>
    /\ last.pre.progress = 0 /\ last.pre.caps # NoCaps
    /\ last.m = Repetitions(2, 20, FALSE)
    /\ progress = 7

\* the position of the ")" that closes a group, searched from position i
\* with depth groups open
RECURSIVE Closing(_, _, _)
Closing(s, i, depth) ==
    IF i > Len(s) THEN i
    ELSE IF s[i] = ")" THEN (IF depth = 1 THEN i ELSE Closing(s, i + 1, depth - 1))
    ELSE IF s[i] = "(" THEN Closing(s, i + 1, depth + 1)
    ELSE Closing(s, i + 1, depth)

\* the expressions the constructors with default arguments build for the
\* characters and groups at positions i..j of pattern s
RECURSIVE Items(_, _, _)
Items(s, i, j) ==
    IF i > j THEN <<>>
    ELSE IF s[i] = "("
    THEN <<GroupObject(Items(s, i + 1, Closing(s, i + 1, 1) - 1),
                       1, 1, TRUE, NoneNames)>>
             \o Items(s, Closing(s, i + 1, 1) + 1, j)
    ELSE <<CharacterObject(s[i], 1, 1, TRUE, NoneNames)>>
             \o Items(s, i + 1, j)

\* the tree built directly from the constructors for pattern s
Constructed(s) == GroupObject(Items(s, 1, Len(s)), 1, 1, TRUE, NoneNames)

\* the expression with the names of every node taken away
RECURSIVE Unnamed(_)
Unnamed(e) ==
    [e EXCEPT !.names = NoneNames,
              !.children = [i \in DOMAIN e.children |-> Unnamed(e.children[i])]]

\* parse() has returned the tree of a pattern of plain characters and
\* parenthesised groups
ParsedPlain ==
    /\ parser.r = "returned"
    /\ \A i \in DOMAIN subject : subject[i] \in PlainChars

\* C29: parse() on a pattern of plain characters and parenthesised groups
\* without quantifiers yields a tree that compares equal (__eq__, every
\* attribute) to the tree built directly from the constructors with default
\* arguments, as parse("abc") and parse("(ab)c")
ParsedEqualsConstructed ==
    ParsedPlain => ExpressionEq(parser.root, Constructed(subject))

\* the trees of C29 differ in the names only
ParsedEqualsConstructedUnnamed ==
    ParsedPlain => ExpressionEq(Unnamed(parser.root), Constructed(subject))

\* parse("(ab)c") has returned
ParsedGroupThenCharacter ==
    /\ ParsedPlain
    /\ subject = <<"(", "a", "b", ")", "c">>
    /\ Len(parser.root.children) = 2
    /\ parser.root.children[1].kind = "group"

\* the last repetition of the root's attempt before the last call
LastBefore == AttemptBefore[Len(AttemptBefore)]

\* the children of the root declared after the one that matched the last
\* repetition before the call, and matching where that repetition began
LaterMatching ==
    {i \in DOMAIN tree[Root].children :
        /\ i > LastBefore.mc + 1
        /\ Ends(tree[Root].children[i], {LastBefore.start}) # {}}

\* every child of the root takes exactly one repetition, so that its retry()
\* returns false
ChildrenMatchOnce ==
    \A i \in DOMAIN tree[Root].children :
        /\ tree[tree[Root].children[i]].min = 1
        /\ tree[tree[Root].children[i]].max = 1

\* C30: retrying an Alternation whose attempt holds k >= 1 repetitions
\* (k = 1 included) first retries the child that matched the last
\* repetition; if that fails it attempts only the children declared after
\* that child, at the cursor where the last repetition began; if none
\* matches it backtracks into the previous repetition; every repetition
\* entry it records keeps the index of the child that matched it
AlternationRetry ==
    (last.op = "retry" /\ AlternationOfLeaves /\ Len(AttemptBefore) >= 1)
        => /\ last.r \in {"true", "false"}
           /\ last.r = "true"
                 => \A j \in DOMAIN CurrentMatch(Current, Root) :
                       CurrentMatch(Current, Root)[j].mc \in
                           0..(Len(tree[Root].children) - 1)
           /\ (ChildrenMatchOnce /\ Len(AttemptBefore) = 1
                   /\ tree[Root].min = 1 /\ tree[Root].max = 1)
                 => /\ last.r = "true" <=> LaterMatching # {}
                    /\ last.r = "true"
                          => /\ Len(CurrentMatch(Current, Root)) = 1
                             /\ CurrentMatch(Current, Root)[1].start =
                                    LastBefore.start
                             /\ \A i \in LaterMatching :
                                    CurrentMatch(Current, Root)[1].mc + 1 <= i
                             /\ CurrentMatch(Current, Root)[1].mc + 1 \in
                                    LaterMatching

\* the number of consecutive subject characters from cursor p that the
\* root, a Literal or Range, accepts
RECURSIVE Accepted(_)
Accepted(p) == IF StepMatches(p) THEN 1 + Accepted(p + 1) ELSE 0

\* the smaller of a count and a limit that may be unbounded
AtMost(n, lim) == IF lim = Inf \/ n <= lim THEN n ELSE lim

\* the number of spans C32 gives the root's attempt at cursor p
InitialCount(p) ==
    IF tree[Root].greedy THEN AtMost(Accepted(p), tree[Root].max)
    ELSE tree[Root].min

\* C32: with n the number of consecutive characters from the cursor a
\* Literal or Range accepts, matches() returns false iff n < min_repetitions;
\* otherwise it returns true with exactly min(max_repetitions, n) spans if
\* greedy and exactly min_repetitions spans if non-greedy, the spans are
\* contiguous one-character spans from the initial cursor, and the cursor is
\* the end of the last span
LeafInitialCount ==
    (last.op = "matches" /\ Kind(Root) \in {"char", "range"})
        => /\ last.r \in {"true", "false"}
           /\ last.r = "false" <=> Accepted(last.pre.progress) < tree[Root].min
           /\ last.r = "true"
                 => /\ CurrentMatch(Current, Root) =
                           [i \in 1..InitialCount(last.pre.progress) |->
                               Span(last.pre.progress + i - 1,
                                    last.pre.progress + i)]
                    /\ progress = last.pre.progress
                                      + InitialCount(last.pre.progress)

\* a greedy leaf that takes at most two repetitions stood before three
\* characters it accepts: its attempt holds two spans
LeafInitialCountWitness ==
    /\ Succeeded("matches") /\ Kind(Root) = "char"
    /\ tree[Root].greedy /\ tree[Root].min = 1 /\ tree[Root].max = 2
    /\ Accepted(last.pre.progress) = 3
    /\ Len(CurrentMatch(Current, Root)) = 2
    /\ progress = 2

\* the root is a Group of Literals and Ranges
GroupOfCharacters ==
    /\ Kind(Root) = "group"
    /\ \A i \in DOMAIN tree[Root].children :
          Kind(tree[Root].children[i]) \in {"char", "range"}

\* the number of consecutive subject characters from cursor p that the
\* leaf n accepts
RECURSIVE Takes(_, _)
Takes(n, p) == IF OnceEnds(n, {p}) # {} THEN 1 + Takes(n, p + 1) ELSE 0

\* the repetition counts the leaf n can take at cursor p
Counts(n, p) ==
    {c \in 0..Takes(n, p) :
        c >= tree[n].min /\ (tree[n].max = Inf \/ c <= tree[n].max)}

\* the valid combinations of repetition counts of the root's children from
\* the i-th on, for one repetition of the root that has reached cursor p
RECURSIVE StepCombinations(_, _)
StepCombinations(i, p) ==
    IF i > Len(tree[Root].children) THEN {<<>>}
    ELSE UNION {{<<c>> \o rest : rest \in StepCombinations(i + 1, p + c)} :
                   c \in Counts(tree[Root].children[i], p)}

\* the characters a combination of repetition counts consumes
RECURSIVE Width(_)
Width(x) == IF x = <<>> THEN 0 ELSE Head(x) + Width(Tail(x))

\* the valid combinations of k repetitions of the root from cursor p, each
\* the counts of the children repetition after repetition
RECURSIVE Combinations(_, _)
Combinations(k, p) ==
    IF k = 0 THEN {<<>>}
    ELSE UNION {{x \o rest : rest \in Combinations(k - 1, p + Width(x))} :
                   x \in StepCombinations(1, p)}

\* the child of the root the d-th count of a combination belongs to
ChildAt(d) ==
    tree[Root].children[((d - 1) % Len(tree[Root].children)) + 1]

\* combination x has priority over y: at the first count that differs a
\* greedy child has more repetitions in x and a non-greedy child fewer
Preferred(x, y) ==
    \E d \in DOMAIN x :
        /\ \A e \in 1..(d - 1) : x[e] = y[e]
        /\ IF tree[ChildAt(d)].greedy THEN x[d] > y[d] ELSE x[d] < y[d]

\* the combination the children hold in stks for an attempt of the root of
\* k repetitions: the lengths of the last k attempts of each child
Held(stks, k) ==
    [d \in 1..(k * Len(tree[Root].children)) |->
        Len(stks[ChildAt(d)][Len(stks[ChildAt(d)]) - k
                             + ((d - 1) \div Len(tree[Root].children)) + 1])]

\* the combination of k repetitions from cursor p in which every
\* repetition is the one of highest priority where the one before ended,
\* as a set: empty when some repetition cannot match there
RECURSIVE Forward(_, _)
Forward(k, p) ==
    IF k = 0 THEN {<<>>}
    ELSE IF StepCombinations(1, p) = {} THEN {}
    ELSE LET x == CHOOSE y \in StepCombinations(1, p) :
                     \A z \in StepCombinations(1, p) \ {y} : Preferred(y, z)
         IN  {x \o rest : rest \in Forward(k - 1, p + Width(x))}

\* the valid combinations of as many repetitions as the root's attempt held
\* before the call that have lower priority than the one it held
SameCountLeft ==
    {y \in Combinations(Len(AttemptBefore), last.base.progress) :
        Preferred(Held(last.pre.stacks, Len(AttemptBefore)), y)}

\* retry() has been called in the context of the matches() calls before it
Retried ==
    /\ last.op = "retry"
    /\ \A i \in DOMAIN trace : trace[i].op \in {"matches", "retry"}

\* C31: retry() on a Group whose attempt holds k >= 1 repetitions returns
\* true with k repetitions if another combination of child repetition
\* counts with k repetitions exists; only when none exists a greedy group
\* continues with k-1 repetitions (false if k = min_repetitions) and a
\* non-greedy group with k+1 repetitions (false if k = max_repetitions or
\* the extra repetition cannot match)
GroupRetrySameCountFirst ==
    (Retried /\ GroupOfCharacters /\ Len(AttemptBefore) >= 1)
        => /\ last.r \in {"true", "false"}
           /\ SameCountLeft # {}
                 => /\ last.r = "true"
                    /\ Len(CurrentMatch(Current, Root)) = Len(AttemptBefore)
           /\ (SameCountLeft = {} /\ tree[Root].greedy)
                 => IF Len(AttemptBefore) = tree[Root].min
                    THEN last.r = "false"
                    ELSE /\ last.r = "true"
                         /\ Len(CurrentMatch(Current, Root)) =
                                Len(AttemptBefore) - 1
           /\ (SameCountLeft = {} /\ ~tree[Root].greedy)
                 => IF \/ Len(AttemptBefore) = tree[Root].max
                       \/ Forward(Len(AttemptBefore) + 1,
                                  last.base.progress) = {}
                    THEN last.r = "false"
                    ELSE /\ last.r = "true"
                         /\ Len(CurrentMatch(Current, Root)) =
                                Len(AttemptBefore) + 1

\* C33: every call of matches() or retry() returns true, returns false or
\* raises: no call runs on without end, also when max_repetitions is
\* unbounded and the repeated body matches the empty string (a repeated
\* Group whose children all allow zero repetitions, a repeated BackReference
\* to an empty capture).  A call that does not end is the outcome "diverge".
CallsTerminate ==
    last.op \in {"matches", "retry"} => last.r # "diverge"

\* the repetitions the attempts a of node n hold together
RECURSIVE RepetitionsHeld(_, _)
RepetitionsHeld(n, a) ==
    IF a = 0 THEN 0 ELSE Len(stacks[n][a]) + RepetitionsHeld(n, a - 1)

\* every entry of every attempt is a span
EntriesAreSpans ==
    \A n \in Nodes : \A a \in DOMAIN stacks[n] : \A j \in DOMAIN stacks[n][a] :
        stacks[n][a][j].start >= 0 /\ stacks[n][a][j].end >= 0

\* every child of a Group holds one attempt for each repetition the Group's
\* attempts record
ChildrenInStep ==
    \A n \in Nodes :
        Kind(n) = "group"
            => \A i \in DOMAIN tree[n].children :
                  Len(stacks[tree[n].children[i]]) =
                      RepetitionsHeld(n, Len(stacks[n]))

\* C34: between protocol calls every entry of every attempt is a span,
\* never the 'no match' value, and each child of a Group holds as many
\* attempts for the Group's attempt as the attempt records repetitions,
\* also after a greedy Group's retry() dropped one repetition and matched
\* the remaining ones again
AttemptsWellFormed ==
    Live => EntriesAreSpans /\ ChildrenInStep

\* the attempt the i-th child of the root holds for the j-th repetition of
\* the root's current attempt
RepetitionAttempt(j, i) ==
    stacks[tree[Root].children[i]]
          [Len(stacks[tree[Root].children[i]])
               - Len(CurrentMatch(Current, Root)) + j]

\* the cursor after the first i children in the j-th repetition of the
\* root's current attempt, as the forward step computes it: the end of the
\* last repetition of the last of them that matched at least once, and the
\* cursor where the repetition began when none did; the first repetition
\* began where matches() was called, each other one where the one before
\* ended
RECURSIVE RepetitionEnd(_, _)
RepetitionEnd(j, i) ==
    IF i = 0
    THEN IF j = 1 THEN last.base.progress
         ELSE RepetitionEnd(j - 1, Len(tree[Root].children))
    ELSE IF Len(RepetitionAttempt(j, i)) > 0
    THEN RepetitionAttempt(j, i)[Len(RepetitionAttempt(j, i))].end
    ELSE RepetitionEnd(j, i - 1)

\* C35: after a Group's retry() found another child combination, the span
\* recorded for a repetition starts at the cursor where the repetition
\* began and ends at the end of the last repetition of the last child that
\* matched, as the span the forward step records for the same combination
GroupRetrySpan ==
    (Succeeded("retry") /\ Retried /\ GroupOfCharacters
         /\ EntriesAreSpans /\ ChildrenInStep)
        => \A j \in DOMAIN CurrentMatch(Current, Root) :
              /\ CurrentMatch(Current, Root)[j].start = RepetitionEnd(j, 0)
              /\ CurrentMatch(Current, Root)[j].end =
                     RepetitionEnd(j, Len(tree[Root].children))

\* the combination of a set of combinations that has priority over the
\* others
Best(S) == CHOOSE y \in S : \A z \in S \ {y} : Preferred(y, z)

\* the root is a Group of Literals and Ranges with max_repetitions 1, called
\* in one context
SingleGroup ==
    /\ GroupOfCharacters /\ tree[Root].max = 1
    /\ \A i \in DOMAIN trace : trace[i].op \in {"matches", "retry"}

\* C36: for a Group of Literal/Range leaves with max_repetitions 1 the
\* combination of child repetition counts matches() finds is the valid one
\* of highest priority (children left to right, a greedy child prefers
\* more repetitions, a non-greedy child fewer); each retry() that returns
\* true with a repetition yields the valid combination next in priority,
\* so none is produced twice; and retry() does not produce a combination
\* exactly when all valid combinations have been produced
GroupEnumeratesCombinations ==
    /\ (last.op = "matches" /\ SingleGroup)
          => /\ last.r \in {"true", "false"}
             /\ Combinations(1, last.pre.progress) # {}
                   => /\ last.r = "true"
                      /\ IF tree[Root].greedy
                         THEN /\ Len(CurrentMatch(Current, Root)) = 1
                              /\ Held(stacks, 1) =
                                     Best(Combinations(1, last.pre.progress))
                         ELSE Len(CurrentMatch(Current, Root)) = tree[Root].min
             /\ Combinations(1, last.pre.progress) = {}
                   => (last.r = "true" <=> tree[Root].min = 0)
    /\ (last.op = "retry" /\ SingleGroup /\ Len(AttemptBefore) = 1)
          => /\ last.r \in {"true", "false"}
             /\ SameCountLeft # {}
                   => /\ last.r = "true"
                      /\ Len(CurrentMatch(Current, Root)) = 1
                      /\ Held(stacks, 1) = Best(SameCountLeft)
             /\ SameCountLeft = {}
                   => /\ last.r = "true"
                            => Len(CurrentMatch(Current, Root)) = 0
                      /\ last.r = "false"
                            <=> (tree[Root].min = 1 \/ ~tree[Root].greedy)

\* a span lies inside the subject
InSubject(m) == 0 <= m.start /\ m.start <= m.end /\ m.end <= Len(subject)

\* C37: in every reachable state every span stored in a node's attempt or
\* in the capture table satisfies 0 <= start <= end <= len(subject), and
\* the cursor lies in [0, len(subject)]
SpansInSubject ==
    /\ 0 <= progress /\ progress <= Len(subject)
    /\ \A n \in Nodes : \A a \in DOMAIN stacks[n] : \A j \in DOMAIN stacks[n][a] :
           stacks[n][a][j] # None => InSubject(stacks[n][a][j])
    /\ \A k \in DOMAIN caps : \A j \in DOMAIN caps[k] : InSubject(caps[k][j])

\* a named group was retried up to the end of a subject of three characters:
\* its capture ends there, and so does the cursor
SpansInSubjectWitness ==
    /\ Succeeded("retry") /\ Kind(Root) = "group"
    /\ Len(subject) = 3 /\ progress = 3
    /\ "1" \in DOMAIN caps
    /\ TopCapture("1") = [start |-> 0, end |-> 3]
    /\ CurrentRepetition(Current, Root).end = 3

====
